---------------------------- MODULE Spec2Model ----------------------------
(***************************************************************************)
(* FloodGuard tile server (src/tile_server.py): the dataset cache kept by  *)
(* load_geojson_to_gdf, the request handlers get_tile and health_check,    *)
(* and the rendering pipeline of render_tile, run by the worker threads of *)
(* the threaded Flask server.                                              *)
(*                                                                         *)
(* Units.  Web Mercator coordinates are measured in units of               *)
(* 20037508.342789244 / 2^19 m, so that the edges of every tile up to zoom *)
(* 20 are integers.  Geographic coordinates are in units of 180/2048       *)
(* degree.                                                                 *)
(***************************************************************************)
EXTENDS Integers, Sequences, FiniteSets, TLC

(* ------------------------------ bounds --------------------------------- *)

\* worker threads of the server that serve requests concurrently
NumThreads == 2

\* requests accepted in one behaviour of the concurrent server (each makes
\* at most one provider load)
MaxRequests == 2

\* requests accepted in one behaviour when they are served one at a time
MaxSeqRequests == 3

\* requests accepted in one behaviour of the server that renders the drawing
\* datasets, one request at a time
MaxDrawRequests == 2

\* direct calls of the coordinate functions: zooms 0..MaxCallZoom, and
\* columns and rows 0..MaxCallIndex (so that some lie beyond the grid)
MaxCallZoom == 3
MaxCallIndex == 8

\* cache calls made one after the other in one behaviour (every request of
\* that server makes one)
MaxCacheRequests == 3

\* requests accepted in one behaviour of the concurrent server whose threads
\* are scheduled fairly
MaxLiveRequests == 2

\* requests accepted in one behaviour of the server that renders the datasets
\* with unsupported and degenerate geometries, one request at a time
MaxSkipRequests == 2

\* operations of the API server begun in one behaviour
MaxApiCalls == 2

\* connections the pool hands out at a time (max_connections of the
\* configuration); one, so that two workers can find it exhausted
MaxConnections == 1

Threads == 1..NumThreads

(* --------------------------- program constants -------------------------- *)

\* tile_server.py:73, in model units (see Units above)
MAX_EXTENT == 524288

\* tile_server.py:263, the largest zoom get_tile accepts
MAX_ZOOM == 20

\* tile_server.py:117, default tile_size of render_tile; also :291
TILE_SIZE == 256

\* tile_server.py:226
POINT_RADIUS == 3

\* tile_server.py:242
LINE_WIDTH == 2

None == "None"

Pow2(n) == 2 ^ n

(* truncation toward zero, as Python's int() applied to a quotient *)
TruncDiv(a, b) ==
  IF a >= 0 THEN a \div b ELSE -((-a) \div b)

Min(a, b) == IF a <= b THEN a ELSE b
Max(a, b) == IF a >= b THEN a ELSE b


(* ------------------------- CoordinateMath ------------------------------ *)

\* geographic units per 180 degrees of longitude
HALF_TURN == 2048

\* variant of tile_to_bbox_mercator: the east edge kept one unit short
tile_to_bbox_mercator_Inset(z, x, y) ==
  LET n == Pow2(z)
      side == (2 * MAX_EXTENT) \div n
      minx == x * side - MAX_EXTENT
      maxx == (x + 1) * side - MAX_EXTENT - 1
      miny == MAX_EXTENT - (y + 1) * side
      maxy == MAX_EXTENT - y * side
  IN  <<minx, miny, maxx, maxy>>

(* tile_to_bbox_mercator(z, x, y): <<minx, miny, maxx, maxy>>.  No range    *)
(* check is made here; n = 2.0 ** z.                                       *)
tile_to_bbox_mercator(z, x, y) ==
  LET n == Pow2(z)
      side == (2 * MAX_EXTENT) \div n     \* exact for z <= MAX_ZOOM
      minx == x * side - MAX_EXTENT
      maxx == (x + 1) * side - MAX_EXTENT
      miny == MAX_EXTENT - (y + 1) * side
      maxy == MAX_EXTENT - y * side
  IN  <<minx, miny, maxx, maxy>>

\* atan(sinh(pi * e / 8)) in geographic units for e = 1..24; from e = 21 on
\* it is a quarter turn to within the unit
LatOfEighth ==
  <<250, 466, 635, 757, 842, 901, 941, 968, 986, 998, 1007, 1012,
    1016, 1019, 1020, 1022, 1022, 1023, 1023, 1023, 1024, 1024, 1024, 1024>>

\* math.degrees(math.atan(math.sinh(math.pi * e / 8)))
LatAt(e) ==
  LET a == IF e < 0 THEN -e ELSE e
      v == IF a = 0 THEN 0
           ELSE IF a <= Len(LatOfEighth) THEN LatOfEighth[a]
           ELSE HALF_TURN \div 2
  IN  IF e < 0 THEN -v ELSE v

(* tile_to_bbox_wgs84(z, x, y): <<minx, miny, maxx, maxy>> in geographic     *)
(* units.  No range check is made here.  1 - 2k/n is counted in eighths,   *)
(* which is exact for z <= 4.                                              *)
tile_to_bbox_wgs84(z, x, y) ==
  LET n == Pow2(z)
      minx == (x * 2 * HALF_TURN) \div n - HALF_TURN
      maxx == ((x + 1) * 2 * HALF_TURN) \div n - HALF_TURN
      miny == LatAt((8 * (n - 2 * (y + 1))) \div n)
      maxy == LatAt((8 * (n - 2 * y)) \div n)
  IN  <<minx, miny, maxx, maxy>>

(* ----------------------------- Reprojector ----------------------------- *)

\* atan(sinh(pi * k / 8)) in geographic units, k = 1..8: the latitudes whose
\* Web Mercator ordinate is k * MAX_EXTENT / 8
LatOfStep == <<250, 466, 635, 757, 842, 901, 941, 968>>

\* forward Web Mercator, X = lon * E / 180
MercX(lon) == (lon * MAX_EXTENT) \div HALF_TURN

\* forward Web Mercator, Y = ln(tan(pi/4 + lat*pi/360)) * E / pi, on the
\* latitudes of LatOfStep (and their negatives, and 0)
MercY(lat) ==
  IF lat = 0 THEN 0
  ELSE LET a == IF lat < 0 THEN -lat ELSE lat
           k == CHOOSE i \in 1..Len(LatOfStep) : LatOfStep[i] = a
           m == (k * MAX_EXTENT) \div 8
       IN  IF lat < 0 THEN -m ELSE m

\* inverse Web Mercator on the same lattice
LonOfX(xm) == (xm * HALF_TURN) \div MAX_EXTENT

LatOfY(ym) ==
  IF ym = 0 THEN 0
  ELSE LET a == IF ym < 0 THEN -ym ELSE ym
           k == (a * 8) \div MAX_EXTENT
       IN  IF ym < 0 THEN -LatOfStep[k] ELSE LatOfStep[k]

CRS_WGS84 == "EPSG:4326"
CRS_MERC == "EPSG:3857"
CRS_84 == "OGC:CRS84"

\* one coordinate pair from CRS `from' to CRS `to'.  OGC:CRS84 and EPSG:4326
\* name the same lon/lat axes (geopandas transforms with always_xy).
TransformPoint(p, from, to) ==
  IF from = to THEN p
  ELSE IF from = CRS_MERC THEN <<LonOfX(p[1]), LatOfY(p[2])>>
  ELSE IF to = CRS_MERC THEN <<MercX(p[1]), MercY(p[2])>>
  ELSE p

\* geometry: polys is a sequence of parts, a part a sequence of rings (or
\* lines, or point lists), a ring a sequence of coordinate pairs
TransformPolys(polys, from, to) ==
  LET ring(r) == [i \in 1..Len(r) |-> TransformPoint(r[i], from, to)]
      part(q) == [j \in 1..Len(q) |-> ring(q[j])]
  IN  [k \in 1..Len(polys) |-> part(polys[k])]

\* GeoDataFrame.to_crs(crs): a new frame, the receiver is left as it is
to_crs(g, crs) ==
  [g EXCEPT !.crs = crs,
            !.feats = [i \in 1..Len(g.feats) |->
                         [g.feats[i] EXCEPT
                            !.polys = TransformPolys(g.feats[i].polys, g.crs, crs)]]]


(* --------------------------- GeometryModel ----------------------------- *)

\* a property value of a column the frame does not have
Absent == "<absent>"

\* a missing value in a numeric column (float NaN)
NaN == "NaN"

RectRing(x0, y0, x1, y1) ==
  << <<x0, y0>>, <<x1, y0>>, <<x1, y1>>, <<x0, y1>>, <<x0, y0>> >>

Feature(kind, sev, sevlevel, polys) ==
  [kind |-> kind, severity |-> sev, severity_level |-> sevlevel, polys |-> polys]

XsOf(r) == {r[i][1] : i \in 1..Len(r)}
YsOf(r) == {r[i][2] : i \in 1..Len(r)}
SetMin(S) == CHOOSE v \in S : \A w \in S : v <= w
SetMax(S) == CHOOSE v \in S : \A w \in S : v >= w

\* <<minx, miny, maxx, maxy>> of a non-empty coordinate sequence
Envelope(r) == <<SetMin(XsOf(r)), SetMin(YsOf(r)), SetMax(XsOf(r)), SetMax(YsOf(r))>>

\* closed boxes share a point
BoxesMeet(a, b) ==
  /\ a[1] <= b[3] /\ b[1] <= a[3]
  /\ a[2] <= b[4] /\ b[2] <= a[4]

\* box b lies strictly inside box a
StrictlyInside(b, a) ==
  /\ a[1] < b[1] /\ b[3] < a[3]
  /\ a[2] < b[2] /\ b[4] < a[4]

(* GeoSeries.intersects(box): the geometry and the tile box share a point.  *)
(* The frames of this model hold axis-parallel rings and segments, for     *)
(* which the test is: the exterior meets the box and the box is not        *)
(* swallowed by a hole; a segment or a point meets the box.                *)
PartIntersects(kind, part, bbox) ==
  IF kind \in {"Polygon", "MultiPolygon"}
  THEN /\ Len(part) > 0
       /\ Len(part[1]) > 0
       /\ BoxesMeet(Envelope(part[1]), bbox)
       /\ \A h \in 2..Len(part) :
            Len(part[h]) > 0 => ~StrictlyInside(bbox, Envelope(part[h]))
  ELSE IF kind \in {"LineString", "MultiLineString"}
  THEN \E l \in 1..Len(part) :
         Len(part[l]) > 0 /\ BoxesMeet(Envelope(part[l]), bbox)
  ELSE IF kind \in {"Point", "MultiPoint"}
  THEN \E l \in 1..Len(part) : \E i \in 1..Len(part[l]) :
         BoxesMeet(<<part[l][i][1], part[l][i][2], part[l][i][1], part[l][i][2]>>, bbox)
  ELSE \E l \in 1..Len(part) :
         Len(part[l]) > 0 /\ BoxesMeet(Envelope(part[l]), bbox)

intersects(f, bbox) ==
  \E k \in 1..Len(f.polys) : PartIntersects(f.kind, f.polys[k], bbox)

\* variant of SelectIntersecting: the rows kept are put last to first
RECURSIVE SelectIntersecting_Reversed(_, _)
SelectIntersecting_Reversed(feats, bbox) ==
  IF feats = <<>> THEN <<>>
  ELSE LET rest == SelectIntersecting_Reversed(Tail(feats), bbox)
       IN  IF intersects(Head(feats), bbox) THEN rest \o <<Head(feats)>> ELSE rest

\* gdf_mercator[gdf_mercator.intersects(tile_bbox_mercator)]: boolean mask,
\* the rows kept stay in their order
RECURSIVE SelectIntersecting(_, _)
SelectIntersecting(feats, bbox) ==
  IF feats = <<>> THEN <<>>
  ELSE LET rest == SelectIntersecting(Tail(feats), bbox)
       IN  IF intersects(Head(feats), bbox) THEN <<Head(feats)>> \o rest ELSE rest

(* ------------------------------ styling -------------------------------- *)

\* str.lower() on the attribute values and file extensions of the model
Lower(s) ==
  CASE s = "HIGH" -> "high"
    [] s = "High" -> "high"
    [] s = "PNG"  -> "png"
    [] s = NaN    -> "nan"
    [] OTHER      -> s

\* Python truthiness of an attribute value: None and '' are false
Truthy(v) == v \notin {None, ""}

\* variant of get_severity_color: the colours of high and critical exchanged
get_severity_color_Swapped(severity) ==
  LET severity_lower == IF Truthy(severity) THEN Lower(severity) ELSE "low"
  IN  CASE severity_lower = "high"     -> <<128, 0, 128, 200>>
        [] severity_lower = "medium"   -> <<255, 165, 0, 150>>
        [] severity_lower = "low"      -> <<255, 255, 0, 120>>
        [] severity_lower = "critical" -> <<255, 0, 0, 180>>
        [] OTHER                       -> <<200, 200, 200, 100>>

get_severity_color(severity) ==
  LET severity_lower == IF Truthy(severity) THEN Lower(severity) ELSE "low"
  IN  CASE severity_lower = "high"     -> <<255, 0, 0, 180>>
        [] severity_lower = "medium"   -> <<255, 165, 0, 150>>
        [] severity_lower = "low"      -> <<255, 255, 0, 120>>
        [] severity_lower = "critical" -> <<128, 0, 128, 200>>
        [] OTHER                       -> <<200, 200, 200, 100>>

\* variant of RowSeverity: the last default is not 'low'
RowSeverity_OtherDefault(f) ==
  IF f.severity # Absent THEN f.severity
  ELSE IF f.severity_level # Absent THEN f.severity_level
  ELSE "unknown"

\* row.get('severity', row.get('severity_level', 'low'))
RowSeverity(f) ==
  IF f.severity # Absent THEN f.severity
  ELSE IF f.severity_level # Absent THEN f.severity_level
  ELSE "low"


(* ----------------------------- Rasterizer ------------------------------ *)

TRANSPARENT == <<0, 0, 0, 0>>
BLACK == <<0, 0, 0, 255>>
NoColor == <<>>

NoImage == [size |-> 0, bg |-> <<>>, ops |-> <<>>]

(* An RGBA image is its size and the drawing calls made on it, in order.   *)
(* ImageDraw writes pixels (it does not blend), so a pixel holds what the  *)
(* last call that covers it wrote, and the initial colour otherwise.       *)
\* Image.new('RGBA', (size, size), color)
ImageNew(size, color) == [size |-> size, bg |-> color, ops |-> <<>>]

\* merc_x_to_pixel / merc_y_to_pixel of render_tile
merc_x_to_pixel(x_coord, bbox, tile_size) ==
  TruncDiv((x_coord - bbox[1]) * tile_size, bbox[3] - bbox[1])

merc_y_to_pixel(y_coord, bbox, tile_size) ==
  TruncDiv((bbox[4] - y_coord) * tile_size, bbox[4] - bbox[2])

ToPixels(coords, bbox, tile_size) ==
  [i \in 1..Len(coords) |->
     <<merc_x_to_pixel(coords[i][1], bbox, tile_size),
       merc_y_to_pixel(coords[i][2], bbox, tile_size)>>]

DrawOp(shape, pts, fill, outline) ==
  [shape |-> shape, pts |-> pts, fill |-> fill, outline |-> outline]

RECURSIVE Flatten(_)
Flatten(ss) == IF ss = <<>> THEN <<>> ELSE Head(ss) \o Flatten(Tail(ss))

\* variant of PolygonOps: the interior rings are drawn before the exterior
PolygonOps_HolesFirst(rings, color, bbox, tile_size) ==
  LET ext == IF Len(rings) > 0 THEN ToPixels(rings[1], bbox, tile_size) ELSE <<>>
      extOp == IF Len(ext) > 2
               THEN <<DrawOp("polygon", ext, color, BLACK)>> ELSE <<>>
      hole(h) == LET pts == ToPixels(rings[h], bbox, tile_size)
                 IN  IF Len(pts) > 2
                     THEN <<DrawOp("polygon", pts, TRANSPARENT, BLACK)>> ELSE <<>>
  IN  Flatten([h \in 1..(Len(rings) - 1) |-> hole(h + 1)]) \o extOp

\* one polygon: the exterior ring filled, then every interior ring
PolygonOps(rings, color, bbox, tile_size) ==
  LET ext == IF Len(rings) > 0 THEN ToPixels(rings[1], bbox, tile_size) ELSE <<>>
      extOp == IF Len(ext) > 2
               THEN <<DrawOp("polygon", ext, color, BLACK)>> ELSE <<>>
      hole(h) == LET pts == ToPixels(rings[h], bbox, tile_size)
                 IN  IF Len(pts) > 2
                     THEN <<DrawOp("polygon", pts, TRANSPARENT, BLACK)>> ELSE <<>>
  IN  extOp \o Flatten([h \in 1..(Len(rings) - 1) |-> hole(h + 1)])

\* variant of FeatureOps: a geometry of any other kind is drawn as polygons
FeatureOps_DrawsOthers(f, bbox, tile_size) ==
  LET color == get_severity_color(RowSeverity(f))
  IN  IF f.kind = "Polygon"
      THEN PolygonOps(f.polys[1], color, bbox, tile_size)
      ELSE IF f.kind \in {"Point", "MultiPoint"}
      THEN LET pts == ToPixels(f.polys[1][1], bbox, tile_size)
           IN  [i \in 1..Len(pts) |-> DrawOp("ellipse", <<pts[i]>>, color, BLACK)]
      ELSE IF f.kind \in {"LineString", "MultiLineString"}
      THEN Flatten([l \in 1..Len(f.polys[1]) |->
                      LET pts == ToPixels(f.polys[1][l], bbox, tile_size)
                      IN  IF Len(pts) > 1
                          THEN <<DrawOp("line", pts, color, NoColor)>> ELSE <<>>])
      ELSE Flatten([k \in 1..Len(f.polys) |->
                      PolygonOps(f.polys[k], color, bbox, tile_size)])

\* variant of FeatureOps: a geometry with a part of too few points is left
\* out as a whole
FeatureOps_StopsAtDegenerate(f, bbox, tile_size) ==
  LET color == get_severity_color(RowSeverity(f))
  IN  IF f.kind = "Polygon"
      THEN PolygonOps(f.polys[1], color, bbox, tile_size)
      ELSE IF f.kind = "MultiPolygon"
      THEN IF \E k \in 1..Len(f.polys) : Len(f.polys[k][1]) <= 2 THEN <<>>
           ELSE Flatten([k \in 1..Len(f.polys) |->
                           PolygonOps(f.polys[k], color, bbox, tile_size)])
      ELSE IF f.kind \in {"Point", "MultiPoint"}
      THEN LET pts == ToPixels(f.polys[1][1], bbox, tile_size)
           IN  [i \in 1..Len(pts) |-> DrawOp("ellipse", <<pts[i]>>, color, BLACK)]
      ELSE IF f.kind \in {"LineString", "MultiLineString"}
      THEN IF \E l \in 1..Len(f.polys[1]) : Len(f.polys[1][l]) <= 1 THEN <<>>
           ELSE Flatten([l \in 1..Len(f.polys[1]) |->
                           <<DrawOp("line", ToPixels(f.polys[1][l], bbox, tile_size),
                                    color, NoColor)>>])
      ELSE <<>>

\* the drawing calls render_tile makes for one row
FeatureOps(f, bbox, tile_size) ==
  LET color == get_severity_color(RowSeverity(f))
  IN  IF f.kind = "Polygon"
      THEN PolygonOps(f.polys[1], color, bbox, tile_size)
      ELSE IF f.kind = "MultiPolygon"
      THEN Flatten([k \in 1..Len(f.polys) |->
                      PolygonOps(f.polys[k], color, bbox, tile_size)])
      ELSE IF f.kind \in {"Point", "MultiPoint"}
      THEN LET pts == ToPixels(f.polys[1][1], bbox, tile_size)
           IN  [i \in 1..Len(pts) |-> DrawOp("ellipse", <<pts[i]>>, color, BLACK)]
      ELSE IF f.kind \in {"LineString", "MultiLineString"}
      THEN Flatten([l \in 1..Len(f.polys[1]) |->
                      LET pts == ToPixels(f.polys[1][l], bbox, tile_size)
                      IN  IF Len(pts) > 1
                          THEN <<DrawOp("line", pts, color, NoColor)>> ELSE <<>>])
      ELSE <<>>

\* variant of DrawFeatures: the rows are painted last to first
DrawFeatures_Reversed(img, feats, bbox) ==
  [img EXCEPT !.ops = @ \o Flatten([i \in 1..Len(feats) |->
                                      FeatureOps(feats[Len(feats) + 1 - i], bbox,
                                                 img.size)])]

\* the loop over intersecting.iterrows()
DrawFeatures(img, feats, bbox) ==
  [img EXCEPT !.ops = @ \o Flatten([i \in 1..Len(feats) |->
                                      FeatureOps(feats[i], bbox, img.size)])]

(* The pixels a drawing call writes, for the axis-parallel shapes of the   *)
(* model: a polygon call writes its rectangle, edges included, the edge    *)
(* pixels in the outline colour; an ellipse call writes the disc of        *)
(* POINT_RADIUS around its centre, rim in the outline colour; a line call  *)
(* writes LINE_WIDTH rows (columns) along each segment.                    *)
OpBox(op) ==
  IF op.shape = "ellipse"
  THEN <<op.pts[1][1] - POINT_RADIUS, op.pts[1][2] - POINT_RADIUS,
         op.pts[1][1] + POINT_RADIUS, op.pts[1][2] + POINT_RADIUS>>
  ELSE IF op.shape = "line"
  THEN LET e == Envelope(op.pts)
       IN  IF e[2] = e[4] THEN <<e[1], e[2] - (LINE_WIDTH - 1), e[3], e[4]>>
           ELSE <<e[1] - (LINE_WIDTH - 1), e[2], e[3], e[4]>>
  ELSE Envelope(op.pts)

InBox(p, b) == b[1] <= p[1] /\ p[1] <= b[3] /\ b[2] <= p[2] /\ p[2] <= b[4]

Dist2(p, c) == (p[1] - c[1]) * (p[1] - c[1]) + (p[2] - c[2]) * (p[2] - c[2])

Writes(op, p) ==
  /\ InBox(p, OpBox(op))
  /\ op.shape = "ellipse" => Dist2(p, op.pts[1]) <= POINT_RADIUS * POINT_RADIUS + 1

OnOutline(op, p) ==
  LET b == OpBox(op)
  IN  IF op.shape = "polygon"
      THEN p[1] \in {b[1], b[3]} \/ p[2] \in {b[2], b[4]}
      ELSE IF op.shape = "ellipse"
      THEN Dist2(p, op.pts[1]) > (POINT_RADIUS - 1) * (POINT_RADIUS - 1) + 1
      ELSE FALSE

WrittenColor(op, p) == IF OnOutline(op, p) THEN op.outline ELSE op.fill

RECURSIVE ColorAfter(_, _, _)
ColorAfter(ops, p, c) ==
  IF ops = <<>> THEN c
  ELSE ColorAfter(Tail(ops), p,
                  IF Writes(Head(ops), p) THEN WrittenColor(Head(ops), p) ELSE c)

\* the RGBA value of pixel p of the image
PixelAt(img, p) == ColorAfter(img.ops, p, img.bg)

(* Every pixel of the image has alpha 0: the initial colour has, and no    *)
(* drawing call left a visible pixel.  A call whose pixels all lie outside *)
(* the image changes nothing; of the pixels a call writes inside, the      *)
(* corners, edge midpoints and centre of its clipped box are looked at for *)
(* a rectangle or a segment (the last call that reaches the image keeps    *)
(* its corner pixels), and the whole clipped box for a disc.               *)
ClippedBox(img, op) ==
  LET b == OpBox(op)
  IN  <<Max(b[1], 0), Max(b[2], 0), Min(b[3], img.size - 1), Min(b[4], img.size - 1)>>

ProbePixels(img, op) ==
  LET c == ClippedBox(img, op)
  IN  IF c[1] > c[3] \/ c[2] > c[4] THEN {}
      ELSE IF op.shape = "ellipse"
      THEN {<<px, py>> : px \in c[1]..c[3], py \in c[2]..c[4]}
      ELSE {<<px, py>> : px \in {c[1], (c[1] + c[3]) \div 2, c[3]},
                         py \in {c[2], (c[2] + c[4]) \div 2, c[4]}}

FullyTransparent(img) ==
  /\ img.bg[4] = 0
  /\ \A i \in 1..Len(img.ops) : \A p \in ProbePixels(img, img.ops[i]) :
       PixelAt(img, p)[4] = 0


(* ------------------------- Feature Provider ---------------------------- *)

\* the values local.geojson_path of the configuration takes
PathA == "sample_data/floodrisk.geojson"
PathB == "sample_data/other.geojson"
Paths == {PathA, PathB}

\* a third value, configured only where the drawing is looked at
PathC == "sample_data/overlap.geojson"
DrawPaths == Paths \cup {PathC}

E2 == MAX_EXTENT \div 2

\* north-east quarter of the world, in degrees
NorthEast ==
  Feature("Polygon", "high", Absent,
          << <<RectRing(0, 0, HALF_TURN, LatOfStep[8])>> >>)

\* a point in the south-west quarter, its severity missing
SouthWestPoint ==
  Feature("Point", None, Absent, << << << <<-(HALF_TURN \div 2), -LatOfStep[2]>> >> >> >>)

\* the whole world with a hole around the origin, in Web Mercator units
WorldWithHole ==
  Feature("Polygon", Absent, "critical",
          << <<RectRing(-MAX_EXTENT, -MAX_EXTENT, MAX_EXTENT, MAX_EXTENT),
               RectRing(-E2, -E2, E2, E2)>> >>)

\* a parallel crossing the northern hemisphere, in Web Mercator units
Parallel ==
  Feature("LineString", Absent, "medium",
          << << << <<-MAX_EXTENT, E2>>, <<MAX_EXTENT, E2>> >> >> >>)

\* a geometry kind render_tile has no branch for, and an empty polygon
Collection ==
  Feature("GeometryCollection", "HIGH", Absent,
          << <<RectRing(0, 0, HALF_TURN \div 2, LatOfStep[4])>> >>)

EmptyPolygon == Feature("Polygon", "low", Absent, << << <<>> >> >>)

\* two overlapping squares of different severity, in Web Mercator units
Base ==
  Feature("Polygon", "low", Absent, << <<RectRing(-E2, -E2, E2, E2)>> >>)

Upper ==
  Feature("Polygon", "critical", Absent,
          << <<RectRing(0, 0, MAX_EXTENT, MAX_EXTENT)>> >>)

\* a square around the origin, inside the hole of WorldWithHole
Inner ==
  Feature("Polygon", Absent, "high",
          << <<RectRing(-(E2 \div 2), -(E2 \div 2), E2 \div 2, E2 \div 2)>> >>)

\* two polygons in one geometry, the first with a hole, the second lying
\* over a corner of that hole
Islands ==
  Feature("MultiPolygon", "medium", Absent,
          << <<RectRing(-MAX_EXTENT, -MAX_EXTENT, E2, E2),
               RectRing(-E2, -E2, 0, 0)>>,
             <<RectRing(-(E2 \div 2), -(E2 \div 2), MAX_EXTENT, MAX_EXTENT)>> >>)

\* a point in the north-east quarter, in degrees, with the given severity
SeverityPoint(i, sev) ==
  Feature("Point", sev, Absent, << << << <<200 * i, LatOfStep[i]>> >> >> >>)

\* the values a severity attribute takes
Severities ==
  <<"critical", "high", "medium", "low", "HIGH", "extreme", None, "", NaN>>

\* a fourth value: a file with geometries render_tile draws nothing for
PathD == "sample_data/odd.geojson"
SkipPaths == {PathA, PathD}

\* a geometry collection over the north-east quarter, in Web Mercator units
Odd ==
  Feature("GeometryCollection", "critical", Absent,
          << <<RectRing(0, 0, MAX_EXTENT, MAX_EXTENT)>> >>)

\* a line string without points
EmptyLine == Feature("LineString", "low", Absent, << << <<>> >> >>)

\* two lines in one geometry: one without points, and a meridian through
\* the western hemisphere
Gaps ==
  Feature("MultiLineString", "high", Absent,
          << << <<>>,
                << <<-E2, -MAX_EXTENT>>, <<-E2, MAX_EXTENT>> >> >> >>)

\* two polygons in one geometry: one whose exterior ring has no points, and
\* a square in the north-east quarter with a hole
Specks ==
  Feature("MultiPolygon", "medium", Absent,
          << << <<>> >>,
             <<RectRing(E2 \div 2, E2 \div 2, MAX_EXTENT, MAX_EXTENT),
               RectRing(E2, E2, E2 + E2 \div 2, E2 + E2 \div 2)>> >>)

\* a polygon of a frame that has neither a severity nor a severity_level column
Plain ==
  Feature("Polygon", Absent, Absent, << <<RectRing(0, 0, E2, E2)>> >>)

Frame(src, crs, feats) == [src |-> src, crs |-> crs, feats |-> feats]

\* what gpd.read_file(path) can return when it succeeds.  src records the
\* path the frame was read from; the program keeps no such field.
FilesAt(path) ==
  IF path = PathA
  THEN { Frame(PathA, CRS_WGS84, <<>>),
         Frame(PathA, CRS_WGS84, <<NorthEast, SouthWestPoint>>),
         Frame(PathA, None, <<NorthEast>>) }
  ELSE IF path = PathB
  THEN { Frame(PathB, CRS_MERC, <<Parallel, WorldWithHole>>),
         Frame(PathB, CRS_84, <<Collection, EmptyPolygon, NorthEast>>) }
  ELSE IF path = PathD
  THEN { Frame(PathD, CRS_MERC, <<Base, Odd, Parallel>>),
         Frame(PathD, CRS_MERC, <<EmptyPolygon, Gaps, EmptyLine, Specks, Inner>>) }
  ELSE { Frame(PathC, CRS_MERC, <<Base, Upper>>),
         Frame(PathC, CRS_MERC, <<Inner, WorldWithHole>>),
         Frame(PathC, CRS_MERC, <<Base, Islands>>),
         Frame(PathC, CRS_MERC, <<Plain>>),
         Frame(PathC, CRS_WGS84,
               [i \in 1..Len(Severities) - 1 |-> SeverityPoint(i, Severities[i])]
                 \o <<Feature("Polygon", Severities[Len(Severities)], Absent,
                               << <<RectRing(0, 0, HALF_TURN, LatOfStep[8])>> >>)>>) }

\* tile addresses the requests of the model carry: the route takes
\* non-negative integers only
TileAddresses ==
  { <<1, 1, 0>>, <<MAX_ZOOM, 0, 0>>,     \* valid
    <<0, 1, 0>>, <<1, 0, 2>>,            \* x or y too large
    <<MAX_ZOOM + 1, 0, 0>> }             \* zoom too large

\* tile addresses of the requests that look at the drawing: the world, its
\* north-east quarter, a tile north-west of the origin, and one off the grid
DrawAddresses == { <<0, 0, 0>>, <<1, 1, 0>>, <<3, 3, 3>>, <<0, 0, 1>> }

\* tile address of the requests of the fairly scheduled server
LiveAddresses == { <<1, 1, 0>> }

\* tile addresses of the requests for the file of PathD: the world and its
\* four quarters
SkipAddresses == { <<0, 0, 0>>, <<1, 0, 0>>, <<1, 1, 0>>, <<1, 0, 1>>, <<1, 1, 1>> }


(* ------------------------------- state --------------------------------- *)

VARIABLES
  data_source,     \* data_service.data_source; None when data_service is None
  config_path,     \* data_service.config['local']['geojson_path']
  heap,            \* the GeoDataFrame objects created so far, by reference
  _gdf_cache,      \* the cached frame: a reference into heap, 0 for None
  _cache_path,     \* the path the cached frame was read from
  pc,              \* where each worker thread stands in its request
  req,             \* the request a thread serves
  geojson_path,    \* local of load_geojson_to_gdf
  gdf,             \* local gdf of render_tile / health_check: a reference
  gdf_mercator,    \* local of render_tile: a frame of its own
  intersecting,    \* local of render_tile: the rows kept by the filter
  img,             \* local img of render_tile / get_tile
  resp,            \* the response of the request
  nreq,            \* requests accepted so far
  hist,            \* per request: what happened to it (not program state)
  call,            \* the last direct call of a coordinate function
  api,             \* where each worker of the API server stands, and its locals
  napi,            \* operations of the API server begun so far
  reported_floods, \* the file at reported_floods_path (local mode)
  uploads,         \* the files in UPLOAD_FOLDER
  pg_out           \* connections of pg_pool that are checked out

vars == <<data_source, config_path, heap, _gdf_cache, _cache_path, pc, req,
          geojson_path, gdf, gdf_mercator, intersecting, img, resp, nreq, hist,
          call, api, napi, reported_floods, uploads, pg_out>>

cacheVars == <<heap, _gdf_cache, _cache_path>>
\* the state of the API server
apiVars == <<api, napi, reported_floods, uploads, pg_out>>
\* what no request handler writes
envVars == <<data_source, config_path, call, apiVars>>
renderLocals == <<gdf_mercator, intersecting, img>>

(* --------------- the API server (app.py, data_service.py) -------------- *)

\* app.py:17
MAX_FILE_SIZE == 10485760

\* app.py:197
MAX_DESCRIPTION == 500

\* app.py:16
ALLOWED_EXTENSIONS == {"png", "jpg", "jpeg"}

\* app.py:158-160.  A file name is the sequence of its parts between dots.
allowed_file(filename) ==
  /\ Len(filename) > 1
  /\ Lower(filename[Len(filename)]) \in ALLOWED_EXTENSIONS

\* the texts float() converts; it raises ValueError on every other text
NumericTexts == {"17.4", "78.5"}
FloatRaises(s) == s \notin NumericTexts

NoPhoto == [present |-> FALSE, filename |-> <<>>, size |-> 0]
Photo(filename, size) == [present |-> TRUE, filename |-> filename, size |-> size]

\* request.form / request.files of POST /api/report-flood; description is the
\* length of the text
PlainForm ==
  [location |-> "Kukatpally", severity_level |-> "High", description |-> 0,
   photo_evidence |-> NoPhoto, latitude |-> None, longitude |-> None]

WithPhoto == [PlainForm EXCEPT !.photo_evidence = Photo(<<"flood", "PNG">>, MAX_FILE_SIZE),
                               !.description = MAX_DESCRIPTION,
                               !.latitude = "17.4", !.longitude = "78.5"]

NoForm == [PlainForm EXCEPT !.location = None, !.severity_level = None]

PostForms ==
  { PlainForm,
    WithPhoto,
    [WithPhoto EXCEPT !.location = ""],
    [WithPhoto EXCEPT !.severity_level = None],
    [WithPhoto EXCEPT !.description = MAX_DESCRIPTION + 1],
    [WithPhoto EXCEPT !.photo_evidence = Photo(<<"flood", "png">>, MAX_FILE_SIZE + 1)],
    [WithPhoto EXCEPT !.photo_evidence = Photo(<<"flood", "exe">>, 1)],
    [PlainForm EXCEPT !.latitude = "north"],
    [WithPhoto EXCEPT !.latitude = "north"],
    [WithPhoto EXCEPT !.longitude = "east"] }

\* the flood_data argument of DataService.post_reported_flood: what the code
\* looks at (its type, the keys it has, the length of the coordinates)
FloodData(isdict, type, geometry, properties, coords, id) ==
  [isdict |-> isdict, type |-> type, geometry |-> geometry,
   properties |-> properties, coords |-> coords, id |-> id]

NoFlood == FloodData(FALSE, None, FALSE, FALSE, 0, 0)

\* app.py:233-249: the feature the route builds
ReportFeature(id) == FloodData(TRUE, "Feature", TRUE, TRUE, 2, id)

\* what a caller of the method may pass
CallerFloods(id) ==
  { ReportFeature(id),
    FloodData(TRUE, "Feature", TRUE, TRUE, 0, id),
    FloodData(TRUE, None, TRUE, TRUE, 2, id),
    FloodData(TRUE, None, FALSE, TRUE, 0, id),
    FloodData(FALSE, None, FALSE, FALSE, 0, id) }

\* data_service.py:490-492: len(coords)
CoordsLen(fd) == IF fd.geometry THEN fd.coords ELSE 0

POST == "post_reported_flood"
FetchOps == {"fetch_reported_floods", "fetch_reported_floods_structured",
             "fetch_rain_gauge"}

NoApi ==
  [pc |-> "idle",
   op |-> None,            \* the DataService method
   via |-> None,           \* "route": from app.py; "caller": called directly
   form |-> NoForm,
   id |-> 0,               \* the uuid of the request
   flood_data |-> NoFlood,
   photo_url |-> 0,        \* the uploaded file saved, 0 for None
   existing_data |-> <<>>, \* local of post_reported_flood, local mode
   conn |-> 0,             \* local conn: 1 when it holds a connection
   result |-> None,        \* what the method returned, "raised" if it raised
   message |-> None,       \* the message of an error the method found itself
   status |-> 0,           \* HTTP status of the route's response
   taken |-> 0,            \* connections this operation took from the pool
   returned |-> 0]         \* connections this operation put back

NoFile == [kind |-> "missing", features |-> <<>>]

(* ------------------------- the tile server's state --------------------- *)

NoFrame == Frame(None, None, <<>>)
NoReq == [kind |-> None, z |-> 0, x |-> 0, y |-> 0]
NoJson == [data_loaded |-> FALSE, feature_count |-> 0]
NoResp == [status |-> 0, mimetype |-> None, cache_control |-> None,
           text |-> None, image |-> NoImage, json |-> NoJson]

NoCall == [fn |-> None, z |-> 0, x |-> 0, y |-> 0, ret |-> <<>>, raised |-> None]

NoHist ==
  [loads |-> 0,            \* provider loads attempted by this request
   trigger |-> None,       \* why it went to the provider: "empty" | "changed"
   outcome |-> None,       \* of its cache call: "hit" | "loaded" | "failed" | "off"
   entry_hit |-> FALSE,    \* the cache held its source when the call began
   entry_cache |-> 0,      \* _gdf_cache when the call began
   entry_frame |-> NoFrame,
   seen_path |-> None,     \* _cache_path when the call compared it
   rendered |-> FALSE,     \* render_tile was entered
   raised |-> {},          \* the steps that raised
   nodata |-> FALSE,       \* the cache call returned None or an empty frame
   filter_empty |-> FALSE, \* the filter ran and kept no row
   painted |-> FALSE]      \* render_tile returned an image with visible pixels

Init ==
  /\ data_source \in {"local", "AWS", "postgresql", None}
  /\ config_path = PathA
  /\ heap = <<>>
  /\ _gdf_cache = 0
  /\ _cache_path = None
  /\ pc = [t \in Threads |-> "idle"]
  /\ req = [t \in Threads |-> NoReq]
  /\ geojson_path = [t \in Threads |-> None]
  /\ gdf = [t \in Threads |-> 0]
  /\ gdf_mercator = [t \in Threads |-> NoFrame]
  /\ intersecting = [t \in Threads |-> <<>>]
  /\ img = [t \in Threads |-> NoImage]
  /\ resp = [t \in Threads |-> NoResp]
  /\ nreq = 0
  /\ hist = [t \in Threads |-> NoHist]
  /\ call = NoCall
  /\ api = [t \in Threads |-> NoApi]
  /\ napi = 0
  /\ reported_floods = NoFile
  /\ uploads = {}
  /\ pg_out = 0

ValidAddress(z, x, y) ==
  /\ 0 <= z /\ z <= MAX_ZOOM
  /\ 0 <= x /\ x < Pow2(z)
  /\ 0 <= y /\ y < Pow2(z)

ReqValid(r) == ValidAddress(r.z, r.x, r.y)

TileBBox(r) == tile_to_bbox_mercator(r.z, r.x, r.y)

Note(t, field, v) == [hist EXCEPT ![t][field] = v]


(* ------------------------ requests arriving ---------------------------- *)

\* the configuration names another source (the path is read on every call)
SetConfigPath(p) ==
  /\ p # config_path
  /\ config_path' = p
  /\ UNCHANGED <<data_source, call, cacheVars, pc, req, geojson_path, gdf,
                 renderLocals, resp, nreq, hist, apiVars>>

\* GET /{z}/{x}/{y} is routed to get_tile on an idle worker
StartTile(t, z, x, y, limit) ==
  /\ pc[t] = "idle"
  /\ nreq < limit
  /\ nreq' = nreq + 1
  /\ req' = [req EXCEPT ![t] = [kind |-> "tile", z |-> z, x |-> x, y |-> y]]
  /\ pc' = [pc EXCEPT ![t] = "validate"]
  /\ UNCHANGED <<envVars, cacheVars, geojson_path, gdf, renderLocals, resp, hist>>

\* GET /health is routed to health_check, which starts with the cache call
StartHealth(t, limit) ==
  /\ pc[t] = "idle"
  /\ nreq < limit
  /\ nreq' = nreq + 1
  /\ req' = [req EXCEPT ![t] = [kind |-> "health", z |-> 0, x |-> 0, y |-> 0]]
  /\ pc' = [pc EXCEPT ![t] = "load_cfg"]
  /\ UNCHANGED <<envVars, cacheVars, geojson_path, gdf, renderLocals, resp, hist>>

\* the response has been sent; the worker takes the next request
Finish(t) ==
  /\ pc[t] = "done"
  /\ pc' = [pc EXCEPT ![t] = "idle"]
  /\ req' = [req EXCEPT ![t] = NoReq]
  /\ geojson_path' = [geojson_path EXCEPT ![t] = None]
  /\ gdf' = [gdf EXCEPT ![t] = 0]
  /\ gdf_mercator' = [gdf_mercator EXCEPT ![t] = NoFrame]
  /\ intersecting' = [intersecting EXCEPT ![t] = <<>>]
  /\ img' = [img EXCEPT ![t] = NoImage]
  /\ resp' = [resp EXCEPT ![t] = NoResp]
  /\ hist' = [hist EXCEPT ![t] = NoHist]
  /\ UNCHANGED <<envVars, cacheVars, nreq>>

(* ------------------------------ get_tile ------------------------------- *)

\* variant of Validate: the coordinate bound compared with > instead of >=
Validate_OffByOne(t) ==
  /\ pc[t] = "validate"
  /\ IF req[t].z < 0 \/ req[t].z > MAX_ZOOM
     THEN /\ resp' = [resp EXCEPT ![t] =
                        [NoResp EXCEPT !.status = 400, !.mimetype = "text/plain",
                                       !.text = "Invalid zoom level"]]
          /\ pc' = [pc EXCEPT ![t] = "done"]
          /\ hist' = hist
     ELSE LET max_tile == Pow2(req[t].z)
          IN  IF \/ req[t].x < 0 \/ req[t].x > max_tile
                 \/ req[t].y < 0 \/ req[t].y > max_tile
              THEN /\ resp' = [resp EXCEPT ![t] =
                                 [NoResp EXCEPT !.status = 400,
                                                !.mimetype = "text/plain",
                                                !.text = "Invalid tile coordinates"]]
                   /\ pc' = [pc EXCEPT ![t] = "done"]
                   /\ hist' = hist
              ELSE /\ resp' = resp
                   /\ pc' = [pc EXCEPT ![t] = "load_cfg"]
                   /\ hist' = Note(t, "rendered", TRUE)
  /\ UNCHANGED <<envVars, cacheVars, req, geojson_path, gdf, renderLocals, nreq>>

\* get_tile, the two address checks; a valid address enters render_tile
Validate(t) ==
  /\ pc[t] = "validate"
  /\ IF req[t].z < 0 \/ req[t].z > MAX_ZOOM
     THEN /\ resp' = [resp EXCEPT ![t] =
                        [NoResp EXCEPT !.status = 400, !.mimetype = "text/plain",
                                       !.text = "Invalid zoom level"]]
          /\ pc' = [pc EXCEPT ![t] = "done"]
          /\ hist' = hist
     ELSE LET max_tile == Pow2(req[t].z)
          IN  IF \/ req[t].x < 0 \/ req[t].x >= max_tile
                 \/ req[t].y < 0 \/ req[t].y >= max_tile
              THEN /\ resp' = [resp EXCEPT ![t] =
                                 [NoResp EXCEPT !.status = 400,
                                                !.mimetype = "text/plain",
                                                !.text = "Invalid tile coordinates"]]
                   /\ pc' = [pc EXCEPT ![t] = "done"]
                   /\ hist' = hist
              ELSE /\ resp' = resp
                   /\ pc' = [pc EXCEPT ![t] = "load_cfg"]
                   /\ hist' = Note(t, "rendered", TRUE)
  /\ UNCHANGED <<envVars, cacheVars, req, geojson_path, gdf, renderLocals, nreq>>

(* ------------------------- load_geojson_to_gdf ------------------------- *)

\* where the caller of load_geojson_to_gdf goes on
AfterLoad(t) == IF req[t].kind = "tile" THEN "render_check" ELSE "health_resp"

\* data_service and data_source are looked at and the path is read
Load_Config(t) ==
  /\ pc[t] = "load_cfg"
  /\ IF data_source = "local"
     THEN /\ geojson_path' = [geojson_path EXCEPT ![t] = config_path]
          /\ pc' = [pc EXCEPT ![t] = "load_chk_cache"]
          /\ gdf' = gdf
          /\ hist' = [hist EXCEPT
               ![t].entry_hit = (_gdf_cache # 0 /\ _cache_path = config_path),
               ![t].entry_cache = _gdf_cache,
               ![t].entry_frame = IF _gdf_cache # 0 THEN heap[_gdf_cache] ELSE NoFrame]
     ELSE /\ gdf' = [gdf EXCEPT ![t] = 0]
          /\ pc' = [pc EXCEPT ![t] = AfterLoad(t)]
          /\ geojson_path' = geojson_path
          /\ hist' = Note(t, "outcome", "off")
  /\ UNCHANGED <<envVars, cacheVars, req, renderLocals, resp, nreq>>

\* variant of Load_CheckCache: a call that finds the cache empty waits until
\* another call has filled it
Load_CheckCache_WaitsForEntry(t) ==
  /\ pc[t] = "load_chk_cache"
  /\ _gdf_cache # 0
  /\ pc' = [pc EXCEPT ![t] = "load_chk_path"]
  /\ hist' = hist
  /\ UNCHANGED <<envVars, cacheVars, req, geojson_path, gdf, renderLocals, resp, nreq>>

\* `_gdf_cache is None`, the first operand of the test
Load_CheckCache(t) ==
  /\ pc[t] = "load_chk_cache"
  /\ IF _gdf_cache = 0
     THEN /\ pc' = [pc EXCEPT ![t] = "load_try"]
          /\ hist' = Note(t, "trigger", "empty")
     ELSE /\ pc' = [pc EXCEPT ![t] = "load_chk_path"]
          /\ hist' = hist
  /\ UNCHANGED <<envVars, cacheVars, req, geojson_path, gdf, renderLocals, resp, nreq>>

\* variant of Load_CheckPath: the comparison inverted
Load_CheckPath_Inverted(t) ==
  /\ pc[t] = "load_chk_path"
  /\ IF _cache_path = geojson_path[t]
     THEN /\ pc' = [pc EXCEPT ![t] = "load_try"]
          /\ hist' = [hist EXCEPT ![t].trigger = "changed",
                                  ![t].seen_path = _cache_path]
     ELSE /\ pc' = [pc EXCEPT ![t] = "load_ret"]
          /\ hist' = Note(t, "outcome", "hit")
  /\ UNCHANGED <<envVars, cacheVars, req, geojson_path, gdf, renderLocals, resp, nreq>>

\* `_cache_path != geojson_path`, the second operand
Load_CheckPath(t) ==
  /\ pc[t] = "load_chk_path"
  /\ IF _cache_path # geojson_path[t]
     THEN /\ pc' = [pc EXCEPT ![t] = "load_try"]
          /\ hist' = [hist EXCEPT ![t].trigger = "changed",
                                  ![t].seen_path = _cache_path]
     ELSE /\ pc' = [pc EXCEPT ![t] = "load_ret"]
          /\ hist' = Note(t, "outcome", "hit")
  /\ UNCHANGED <<envVars, cacheVars, req, geojson_path, gdf, renderLocals, resp, nreq>>

\* os.path.exists(geojson_path): a missing file makes the call return None
Load_Try(t) ==
  /\ pc[t] = "load_try"
  /\ \E exists \in BOOLEAN :
       IF exists
       THEN /\ pc' = [pc EXCEPT ![t] = "load_read"]
            /\ gdf' = gdf
            /\ hist' = Note(t, "loads", hist[t].loads + 1)
       ELSE /\ pc' = [pc EXCEPT ![t] = AfterLoad(t)]
            /\ gdf' = [gdf EXCEPT ![t] = 0]
            /\ hist' = [hist EXCEPT ![t].loads = @ + 1, ![t].outcome = "failed",
                                    ![t].raised = @ \cup {"load"}]
  /\ UNCHANGED <<envVars, cacheVars, req, geojson_path, renderLocals, resp, nreq>>

\* variant of Load_Read: the except clause also drops the cached frame
Load_Read_ClearsOnError(t) ==
  /\ pc[t] = "load_read"
  /\ \/ \E f \in FilesAt(geojson_path[t]) :
          /\ heap' = Append(heap, f)
          /\ _gdf_cache' = Len(heap) + 1
          /\ pc' = [pc EXCEPT ![t] = "load_setpath"]
          /\ UNCHANGED <<_cache_path, gdf, hist>>
     \/ /\ pc' = [pc EXCEPT ![t] = AfterLoad(t)]
        /\ gdf' = [gdf EXCEPT ![t] = 0]
        /\ hist' = [hist EXCEPT ![t].outcome = "failed",
                                ![t].raised = @ \cup {"load"}]
        /\ _gdf_cache' = 0
        /\ UNCHANGED <<heap, _cache_path>>
  /\ UNCHANGED <<envVars, req, geojson_path, renderLocals, resp, nreq>>

\* variant of Load_Read: the except clause notes the path that failed as
\* the cached one
Load_Read_NotesFailure(t) ==
  /\ pc[t] = "load_read"
  /\ \/ \E f \in FilesAt(geojson_path[t]) :
          /\ heap' = Append(heap, f)
          /\ _gdf_cache' = Len(heap) + 1
          /\ pc' = [pc EXCEPT ![t] = "load_setpath"]
          /\ UNCHANGED <<_cache_path, gdf, hist>>
     \/ /\ pc' = [pc EXCEPT ![t] = AfterLoad(t)]
        /\ gdf' = [gdf EXCEPT ![t] = 0]
        /\ hist' = [hist EXCEPT ![t].outcome = "failed",
                                ![t].raised = @ \cup {"load"}]
        /\ _cache_path' = geojson_path[t]
        /\ UNCHANGED <<heap, _gdf_cache>>
  /\ UNCHANGED <<envVars, req, geojson_path, renderLocals, resp, nreq>>

\* gpd.read_file returns and _gdf_cache is bound to the new frame, or it
\* raises and the except clause returns None
Load_Read(t) ==
  /\ pc[t] = "load_read"
  /\ \/ \E f \in FilesAt(geojson_path[t]) :
          /\ heap' = Append(heap, f)
          /\ _gdf_cache' = Len(heap) + 1
          /\ pc' = [pc EXCEPT ![t] = "load_setpath"]
          /\ UNCHANGED <<_cache_path, gdf, hist>>
     \/ /\ pc' = [pc EXCEPT ![t] = AfterLoad(t)]
        /\ gdf' = [gdf EXCEPT ![t] = 0]
        /\ hist' = [hist EXCEPT ![t].outcome = "failed",
                                ![t].raised = @ \cup {"load"}]
        /\ UNCHANGED cacheVars
  /\ UNCHANGED <<envVars, req, geojson_path, renderLocals, resp, nreq>>

\* variant of Load_SetPath: the identifier is not updated
Load_SetPath_Forgets(t) ==
  /\ pc[t] = "load_setpath"
  /\ _cache_path' = _cache_path
  /\ pc' = [pc EXCEPT ![t] = "load_ret"]
  /\ hist' = Note(t, "outcome", "loaded")
  /\ UNCHANGED <<envVars, heap, _gdf_cache, req, geojson_path, gdf, renderLocals,
                 resp, nreq>>

\* _cache_path = geojson_path
Load_SetPath(t) ==
  /\ pc[t] = "load_setpath"
  /\ _cache_path' = geojson_path[t]
  /\ pc' = [pc EXCEPT ![t] = "load_ret"]
  /\ hist' = Note(t, "outcome", "loaded")
  /\ UNCHANGED <<envVars, heap, _gdf_cache, req, geojson_path, gdf, renderLocals,
                 resp, nreq>>

\* return _gdf_cache
Load_Return(t) ==
  /\ pc[t] = "load_ret"
  /\ gdf' = [gdf EXCEPT ![t] = _gdf_cache]
  /\ pc' = [pc EXCEPT ![t] = AfterLoad(t)]
  /\ UNCHANGED <<envVars, cacheVars, req, geojson_path, renderLocals, resp, nreq, hist>>


(* ----------------------------- render_tile ----------------------------- *)

\* an exception leaves render_tile or the encoding: get_tile's handler is next
Raise(t, step) ==
  /\ pc' = [pc EXCEPT ![t] = "except"]
  /\ hist' = [hist EXCEPT ![t].raised = @ \cup {step}]

\* variant of Render_NoData: the empty tile made as an opaque (RGB) image
Render_NoData_Opaque(t) ==
  /\ pc[t] = "render_check"
  /\ IF gdf[t] = 0 \/ Len(heap[gdf[t]].feats) = 0
     THEN /\ img' = [img EXCEPT ![t] = ImageNew(TILE_SIZE, BLACK)]
          /\ pc' = [pc EXCEPT ![t] = "encode"]
          /\ hist' = Note(t, "nodata", TRUE)
     ELSE /\ img' = img
          /\ pc' = [pc EXCEPT ![t] = "render_crs"]
          /\ hist' = hist
  /\ UNCHANGED <<envVars, cacheVars, req, geojson_path, gdf, gdf_mercator,
                 intersecting, resp, nreq>>

\* `if gdf is None or len(gdf) == 0`: a transparent tile is returned
Render_NoData(t) ==
  /\ pc[t] = "render_check"
  /\ IF gdf[t] = 0 \/ Len(heap[gdf[t]].feats) = 0
     THEN /\ img' = [img EXCEPT ![t] = ImageNew(TILE_SIZE, TRANSPARENT)]
          /\ pc' = [pc EXCEPT ![t] = "encode"]
          /\ hist' = Note(t, "nodata", TRUE)
     ELSE /\ img' = img
          /\ pc' = [pc EXCEPT ![t] = "render_crs"]
          /\ hist' = hist
  /\ UNCHANGED <<envVars, cacheVars, req, geojson_path, gdf, gdf_mercator,
                 intersecting, resp, nreq>>

\* `if gdf.crs is None: gdf.set_crs('EPSG:4326', inplace=True)`: the frame
\* gdf refers to is the object the cache holds
Render_EnsureCrs(t) ==
  /\ pc[t] = "render_crs"
  /\ IF heap[gdf[t]].crs = None
     THEN heap' = [heap EXCEPT ![gdf[t]].crs = CRS_WGS84]
     ELSE heap' = heap
  /\ pc' = [pc EXCEPT ![t] = "render_reproject"]
  /\ UNCHANGED <<envVars, _gdf_cache, _cache_path, req, geojson_path, gdf,
                 renderLocals, resp, nreq, hist>>

\* the frame brought to EPSG:4326 unless it is in EPSG:4326 or EPSG:3857
\* already (a new local frame), and then gdf.to_crs('EPSG:3857')
Render_Reproject(t) ==
  /\ pc[t] = "render_reproject"
  /\ \/ LET g == heap[gdf[t]]
            wgs == IF g.crs \notin {CRS_WGS84, CRS_MERC} THEN to_crs(g, CRS_WGS84) ELSE g
        IN  /\ gdf_mercator' = [gdf_mercator EXCEPT ![t] = to_crs(wgs, CRS_MERC)]
            /\ pc' = [pc EXCEPT ![t] = "render_filter"]
            /\ hist' = hist
     \/ /\ Raise(t, "reproject")
        /\ gdf_mercator' = gdf_mercator
  /\ UNCHANGED <<envVars, cacheVars, req, geojson_path, gdf, intersecting, img,
                 resp, nreq>>

\* the rows that intersect the tile box; if the test raises, all rows.  No
\* row left: a transparent tile is returned
Render_Filter(t) ==
  /\ pc[t] = "render_filter"
  /\ \E ok \in BOOLEAN :
       LET rows == IF ok
                   THEN SelectIntersecting(gdf_mercator[t].feats, TileBBox(req[t]))
                   ELSE gdf_mercator[t].feats
           h1 == IF ok THEN hist
                 ELSE [hist EXCEPT ![t].raised = @ \cup {"filter"}]
       IN  /\ intersecting' = [intersecting EXCEPT ![t] = rows]
           /\ IF Len(rows) = 0
              THEN /\ img' = [img EXCEPT ![t] = ImageNew(TILE_SIZE, TRANSPARENT)]
                   /\ pc' = [pc EXCEPT ![t] = "encode"]
                   /\ hist' = [h1 EXCEPT ![t].filter_empty = TRUE]
              ELSE /\ img' = img
                   /\ pc' = [pc EXCEPT ![t] = "render_draw"]
                   /\ hist' = h1
  /\ UNCHANGED <<envVars, cacheVars, req, geojson_path, gdf, gdf_mercator, resp, nreq>>

\* variant of Render_Draw: one image is kept for all requests, and a request
\* draws on what the request of another thread has left on it
Render_Draw_SharedBuffer(t) ==
  /\ pc[t] = "render_draw"
  /\ \/ \E base \in {IF \E u \in Threads : u # t /\ img[u] # NoImage
                       THEN img[CHOOSE u \in Threads : u # t /\ img[u] # NoImage]
                       ELSE ImageNew(TILE_SIZE, TRANSPARENT)} :
          \E out \in {DrawFeatures(base, intersecting[t], TileBBox(req[t]))} :
            /\ img' = [img EXCEPT ![t] = out]
            /\ pc' = [pc EXCEPT ![t] = "encode"]
            /\ hist' = Note(t, "painted", ~FullyTransparent(out))
     \/ /\ Raise(t, "draw")
        /\ img' = img
  /\ UNCHANGED <<envVars, cacheVars, req, geojson_path, gdf, gdf_mercator,
                 intersecting, resp, nreq>>

\* a new image, every row drawn on it in order, and the image returned; an
\* exception while drawing leaves get_tile's img unbound
Render_Draw(t) ==
  /\ pc[t] = "render_draw"
  /\ \/ \E out \in {DrawFeatures(ImageNew(TILE_SIZE, TRANSPARENT), intersecting[t],
                                   TileBBox(req[t]))} :
            /\ img' = [img EXCEPT ![t] = out]
            /\ pc' = [pc EXCEPT ![t] = "encode"]
            /\ hist' = Note(t, "painted", ~FullyTransparent(out))
     \/ /\ Raise(t, "draw")
        /\ img' = img
  /\ UNCHANGED <<envVars, cacheVars, req, geojson_path, gdf, gdf_mercator,
                 intersecting, resp, nreq>>

(* ----------------------- get_tile, the response ------------------------ *)

PNG == "image/png"

\* variant of Encode: a failed encoding sends the request back to the drawing
Encode_Rerenders(t) ==
  /\ pc[t] = "encode"
  /\ \/ /\ resp' = [resp EXCEPT ![t] =
                      [NoResp EXCEPT !.status = 200, !.mimetype = PNG,
                                     !.cache_control = "public, max-age=3600",
                                     !.image = img[t]]]
        /\ pc' = [pc EXCEPT ![t] = "done"]
        /\ hist' = hist
     \/ /\ pc' = [pc EXCEPT ![t] = "render_draw"]
        /\ hist' = [hist EXCEPT ![t].raised = @ \cup {"encode"}]
        /\ resp' = resp
  /\ UNCHANGED <<envVars, cacheVars, req, geojson_path, gdf, renderLocals, nreq>>

\* img.save(..., format='PNG') and the Response with its headers
Encode(t) ==
  /\ pc[t] = "encode"
  /\ \/ /\ resp' = [resp EXCEPT ![t] =
                      [NoResp EXCEPT !.status = 200, !.mimetype = PNG,
                                     !.cache_control = "public, max-age=3600",
                                     !.image = img[t]]]
        /\ pc' = [pc EXCEPT ![t] = "done"]
        /\ hist' = hist
     \/ /\ Raise(t, "encode")
        /\ resp' = resp
  /\ UNCHANGED <<envVars, cacheVars, req, geojson_path, gdf, renderLocals, nreq>>

\* variant of Except: the error is surfaced as a server error
Except_ServerError(t) ==
  /\ pc[t] = "except"
  /\ resp' = [resp EXCEPT ![t] =
                [NoResp EXCEPT !.status = 500, !.mimetype = "text/plain",
                               !.text = "Internal Server Error"]]
  /\ pc' = [pc EXCEPT ![t] = "done"]
  /\ UNCHANGED <<envVars, cacheVars, req, geojson_path, gdf, renderLocals, nreq, hist>>

\* variant of Except: the image render_tile returned is sent if there is one
Except_KeepsImage(t) ==
  /\ pc[t] = "except"
  /\ resp' = [resp EXCEPT ![t] =
                [NoResp EXCEPT !.status = 200, !.mimetype = PNG,
                               !.image = IF img[t] # NoImage THEN img[t]
                                         ELSE ImageNew(256, TRANSPARENT)]]
  /\ pc' = [pc EXCEPT ![t] = "done"]
  /\ UNCHANGED <<envVars, cacheVars, req, geojson_path, gdf, renderLocals, nreq, hist>>

\* `except Exception`: a new transparent 256 x 256 image, sent as image/png
Except(t) ==
  /\ pc[t] = "except"
  /\ resp' = [resp EXCEPT ![t] =
                [NoResp EXCEPT !.status = 200, !.mimetype = PNG,
                               !.image = ImageNew(256, TRANSPARENT)]]
  /\ pc' = [pc EXCEPT ![t] = "done"]
  /\ UNCHANGED <<envVars, cacheVars, req, geojson_path, gdf, renderLocals, nreq, hist>>

(* ---------------------------- health_check ----------------------------- *)

Health_Respond(t) ==
  /\ pc[t] = "health_resp"
  /\ LET n == IF gdf[t] # 0 THEN Len(heap[gdf[t]].feats) ELSE 0
     IN  resp' = [resp EXCEPT ![t] =
                    [NoResp EXCEPT !.status = 200, !.mimetype = "application/json",
                                   !.json = [data_loaded |-> (gdf[t] # 0 /\ n > 0),
                                             feature_count |-> n]]]
  /\ pc' = [pc EXCEPT ![t] = "done"]
  /\ UNCHANGED <<envVars, cacheVars, req, geojson_path, gdf, renderLocals, nreq, hist>>

(* ------------------- the coordinate functions, called ------------------ *)

\* the addresses the functions are called with
CallAddresses ==
  {<<z, x, y>> : z \in 0..MaxCallZoom, x \in 0..MaxCallIndex, y \in 0..MaxCallIndex}
    \cup {<<5, 31, 0>>, <<5, 32, 0>>, <<MAX_ZOOM, 0, 0>>, <<MAX_ZOOM, Pow2(MAX_ZOOM), 0>>}

\* the state of everything but the call
restVars == <<data_source, config_path, cacheVars, pc, req, geojson_path, gdf,
              renderLocals, resp, nreq, hist, apiVars>>

\* tile_to_bbox_mercator(z, x, y) is called and returns
Call_tile_to_bbox_mercator(z, x, y) ==
  /\ call' = [fn |-> "tile_to_bbox_mercator", z |-> z, x |-> x, y |-> y,
              ret |-> tile_to_bbox_mercator(z, x, y), raised |-> None]
  /\ UNCHANGED restVars

\* tile_to_bbox_wgs84(z, x, y) is called and returns
Call_tile_to_bbox_wgs84(z, x, y) ==
  /\ 16 % Pow2(z) = 0
  /\ call' = [fn |-> "tile_to_bbox_wgs84", z |-> z, x |-> x, y |-> y,
              ret |-> tile_to_bbox_wgs84(z, x, y), raised |-> None]
  /\ UNCHANGED restVars

(* ---------------- the API server: routes and methods ------------------ *)

\* everything of the tile server
serverVars == <<data_source, config_path, cacheVars, pc, req, geojson_path,
                gdf, renderLocals, resp, nreq, hist, call>>

\* data_service.py:111,175 / 483,552,568: the branch a method takes
Branch(op) ==
  IF data_source = "postgresql" THEN "pg_get"
  ELSE IF op # POST THEN "fetch_other"
  ELSE IF data_source = "AWS" THEN "aws_put"
  ELSE "local_read"

\* POST /api/report-flood is routed to post_reported_flood on an idle worker
Post(t, f) ==
  /\ api[t].pc = "idle"
  /\ napi < MaxApiCalls
  /\ napi' = napi + 1
  /\ api' = [api EXCEPT ![t] = [NoApi EXCEPT !.pc = "validate", !.op = POST,
                                             !.via = "route", !.form = f,
                                             !.id = napi + 1]]
  /\ UNCHANGED <<reported_floods, uploads, pg_out, serverVars>>

\* a method of the DataService object is called (by a route or by any other
\* code that holds the object)
Call(t, op, fd) ==
  /\ data_source # None
  /\ api[t].pc = "idle"
  /\ napi < MaxApiCalls
  /\ napi' = napi + 1
  /\ api' = [api EXCEPT ![t] = [NoApi EXCEPT !.pc = Branch(op), !.op = op,
                                             !.via = "caller", !.flood_data = fd,
                                             !.id = napi + 1]]
  /\ UNCHANGED <<reported_floods, uploads, pg_out, serverVars>>

\* the route returns a response with this status
Respond(t, status) == [api[t] EXCEPT !.pc = "done", !.status = status]

\* app.py:178-198
Report_Validate(t) ==
  /\ api[t].pc = "validate"
  /\ LET f == api[t].form IN
       api' = [api EXCEPT ![t] =
                 IF data_source = None THEN Respond(t, 500)
                 ELSE IF ~Truthy(f.location) THEN Respond(t, 400)
                 ELSE IF ~Truthy(f.severity_level) THEN Respond(t, 400)
                 ELSE IF f.description > MAX_DESCRIPTION THEN Respond(t, 400)
                 ELSE [api[t] EXCEPT !.pc = "upload"]]
  /\ UNCHANGED <<napi, reported_floods, uploads, pg_out, serverVars>>

\* app.py:201-218; file.save may raise (line 258)
Report_Upload(t) ==
  /\ api[t].pc = "upload"
  /\ LET file == api[t].form.photo_evidence IN
       IF file.present /\ file.filename # <<>> /\ allowed_file(file.filename)
       THEN IF file.size > MAX_FILE_SIZE
            THEN /\ api' = [api EXCEPT ![t] = Respond(t, 400)]
                 /\ uploads' = uploads
            ELSE \/ /\ uploads' = uploads \cup {api[t].id}
                    /\ api' = [api EXCEPT ![t].pc = "coords",
                                          ![t].photo_url = api[t].id]
                 \/ /\ uploads' = uploads
                    /\ api' = [api EXCEPT ![t] = Respond(t, 500)]
       ELSE /\ api' = [api EXCEPT ![t].pc = "coords"]
            /\ uploads' = uploads
  /\ UNCHANGED <<napi, reported_floods, pg_out, serverVars>>

\* app.py:222-251 and 256-257: float() of the coordinates, the feature, the
\* call of data_service.post_reported_flood
Report_Coords(t) ==
  /\ api[t].pc = "coords"
  /\ LET f == api[t].form IN
       api' = [api EXCEPT ![t] =
                 IF \/ Truthy(f.latitude) /\ FloatRaises(f.latitude)
                    \/ Truthy(f.longitude) /\ FloatRaises(f.longitude)
                 THEN Respond(t, 400)
                 ELSE [api[t] EXCEPT !.pc = Branch(POST),
                                     !.flood_data = ReportFeature(api[t].id)]]
  /\ UNCHANGED <<napi, reported_floods, uploads, pg_out, serverVars>>

\* data_service.py:67-71 at 114, 239, 379, 486: the pool hands out a
\* connection, or the call raises (no pool, pool exhausted, server away)
Pg_GetConn(t) ==
  /\ api[t].pc = "pg_get"
  /\ \/ /\ pg_out < MaxConnections
        /\ pg_out' = pg_out + 1
        /\ api' = [api EXCEPT ![t].pc = "pg_body", ![t].conn = 1,
                              ![t].taken = @ + 1]
     \/ /\ pg_out' = pg_out
        /\ api' = [api EXCEPT ![t].pc = "pg_except"]
  /\ UNCHANGED <<napi, reported_floods, uploads, serverVars>>

\* a try block whose early return leaves without the finally block
Pg_Body_EarlyReturnSkipsFinally(t) ==
  /\ api[t].pc = "pg_body"
  /\ LET fd == api[t].flood_data IN
       \/ api' = [api EXCEPT ![t].pc = "pg_except"]
       \/ /\ api[t].op = POST /\ fd.isdict /\ CoordsLen(fd) < 2
          /\ api' = [api EXCEPT ![t].pc = "return", ![t].result = "error",
                                ![t].message = "Invalid coordinates"]
       \/ /\ api[t].op = POST /\ fd.isdict /\ CoordsLen(fd) >= 2
          /\ api' = [api EXCEPT ![t].pc = "pg_finally", ![t].result = "success"]
       \/ /\ api[t].op \in FetchOps
          /\ api' = [api EXCEPT ![t].pc = "pg_finally", ![t].result = "data"]
  /\ UNCHANGED <<napi, reported_floods, uploads, pg_out, serverVars>>

\* data_service.py:487-543 (and 115-168, 240-287, 380-430): the statements
\* of the try block after the connection is taken
Pg_Body(t) ==
  /\ api[t].pc = "pg_body"
  /\ LET fd == api[t].flood_data IN
       \/ api' = [api EXCEPT ![t].pc = "pg_except"]
       \/ /\ api[t].op = POST /\ fd.isdict /\ CoordsLen(fd) < 2
          /\ api' = [api EXCEPT ![t].pc = "pg_finally", ![t].result = "error",
                                ![t].message = "Invalid coordinates"]
       \/ /\ api[t].op = POST /\ fd.isdict /\ CoordsLen(fd) >= 2
          /\ api' = [api EXCEPT ![t].pc = "pg_finally", ![t].result = "success"]
       \/ /\ api[t].op \in FetchOps
          /\ api' = [api EXCEPT ![t].pc = "pg_finally", ![t].result = "data"]
  /\ UNCHANGED <<napi, reported_floods, uploads, pg_out, serverVars>>

\* data_service.py:544-548 (and 169-171, 288-290, 431-433): the except block; conn.rollback()
\* may raise in its turn
Pg_Except(t) ==
  /\ api[t].pc = "pg_except"
  /\ IF api[t].op = POST
     THEN \/ api' = [api EXCEPT ![t].pc = "pg_finally", ![t].result = "error"]
          \/ /\ api[t].conn = 1
             /\ api' = [api EXCEPT ![t].pc = "pg_finally", ![t].result = "raised"]
     ELSE api' = [api EXCEPT ![t].pc = "pg_finally", ![t].result = "nothing"]
  /\ UNCHANGED <<napi, reported_floods, uploads, pg_out, serverVars>>

\* data_service.py:549-551 (and 172-174, 291-293, 434-436) with 73-76: the
\* finally block
Pg_Finally(t) ==
  /\ api[t].pc = "pg_finally"
  /\ IF api[t].conn = 1
     THEN /\ pg_out' = pg_out - 1
          /\ api' = [api EXCEPT ![t].pc = "return", ![t].conn = 0,
                                ![t].returned = @ + 1]
     ELSE /\ pg_out' = pg_out
          /\ api' = [api EXCEPT ![t].pc = "return"]
  /\ UNCHANGED <<napi, reported_floods, uploads, serverVars>>

\* data_service.py:553-567: put_item succeeds, raises ClientError, or raises
\* something else
Aws_Put(t) ==
  /\ api[t].pc = "aws_put"
  /\ \E r \in {"success", "error", "raised"} :
       api' = [api EXCEPT ![t].pc = "return", ![t].result = r]
  /\ UNCHANGED <<napi, reported_floods, uploads, pg_out, serverVars>>

\* the fetch methods outside PostgreSQL mode (data_service.py:175-232,
\* 294-372, 437-479): they write nothing; in AWS mode only ClientError is
\* caught
Fetch_Other(t) ==
  /\ api[t].pc = "fetch_other"
  /\ \E r \in {"data", "nothing"} \cup (IF data_source = "AWS" THEN {"raised"} ELSE {}) :
       api' = [api EXCEPT ![t].pc = "return", ![t].result = r]
  /\ UNCHANGED <<napi, reported_floods, uploads, pg_out, serverVars>>

\* data_service.py:570-590 and 595-599: the file is read (json.load raises on
\* a file that is being written) and the feature appended to the local copy
Local_Read(t) ==
  /\ api[t].pc = "local_read"
  /\ LET fd == api[t].flood_data
         failed(m) == [api[t] EXCEPT !.pc = "return", !.result = "error",
                                     !.message = m]
     IN api' = [api EXCEPT ![t] =
                  IF reported_floods.kind = "partial" THEN failed(None)
                  ELSE IF ~fd.isdict THEN failed("Invalid data format")
                  ELSE IF fd.type = "Feature" \/ (fd.geometry /\ fd.properties)
                  THEN [api[t] EXCEPT !.pc = "local_open",
                                      !.existing_data =
                                         Append(reported_floods.features, fd.id)]
                  ELSE failed("Invalid GeoJSON format")]
  /\ UNCHANGED <<napi, reported_floods, uploads, pg_out, serverVars>>

\* data_service.py:592: open(floods_path, 'w') empties the file, or raises
Local_Open(t) ==
  /\ api[t].pc = "local_open"
  /\ \/ /\ reported_floods' = [kind |-> "partial", features |-> <<>>]
        /\ api' = [api EXCEPT ![t].pc = "local_dump"]
     \/ /\ reported_floods' = reported_floods
        /\ api' = [api EXCEPT ![t].pc = "return", ![t].result = "error"]
  /\ UNCHANGED <<napi, uploads, pg_out, serverVars>>

\* data_service.py:593-594: json.dump writes the local copy
Local_Dump(t) ==
  /\ api[t].pc = "local_dump"
  /\ reported_floods' = [kind |-> "collection",
                         features |-> api[t].existing_data]
  /\ api' = [api EXCEPT ![t].pc = "return", ![t].result = "success"]
  /\ UNCHANGED <<napi, uploads, pg_out, serverVars>>

\* the method returns: to its caller, or to the route (app.py:251-255, 258)
Return(t) ==
  /\ api[t].pc = "return"
  /\ api' = [api EXCEPT ![t] =
               IF api[t].via = "route"
               THEN Respond(t, IF api[t].result = "success" THEN 201 ELSE 500)
               ELSE [api[t] EXCEPT !.pc = "done"]]
  /\ UNCHANGED <<napi, reported_floods, uploads, pg_out, serverVars>>

\* the worker is free again
Api_Finish(t) ==
  /\ api[t].pc = "done"
  /\ api' = [api EXCEPT ![t] = NoApi]
  /\ UNCHANGED <<napi, reported_floods, uploads, pg_out, serverVars>>

(* --------------------------- specifications ---------------------------- *)

Step(t) ==
  \/ Validate(t)
  \/ Load_Config(t)
  \/ Load_CheckCache(t)
  \/ Load_CheckPath(t)
  \/ Load_Try(t)
  \/ Load_Read(t)
  \/ Load_SetPath(t)
  \/ Load_Return(t)
  \/ Render_NoData(t)
  \/ Render_EnsureCrs(t)
  \/ Render_Reproject(t)
  \/ Render_Filter(t)
  \/ Render_Draw(t)
  \/ Encode(t)
  \/ Except(t)
  \/ Health_Respond(t)
  \/ Finish(t)

Arrive(t, limit) ==
  \/ \E a \in TileAddresses : StartTile(t, a[1], a[2], a[3], limit)
  \/ StartHealth(t, limit)

\* the threaded server: requests are served concurrently
Next ==
  \/ \E p \in Paths : SetConfigPath(p)
  \/ \E t \in Threads : Arrive(t, MaxRequests)
  \/ \E t \in Threads : Step(t)

Spec == Init /\ [][Next]_vars

\* one request at a time: a request is taken only when no other is in hand
AllIdle == \A t \in Threads : pc[t] = "idle"

NextSeq ==
  \/ \E p \in Paths : SetConfigPath(p)
  \/ AllIdle /\ \E t \in Threads : Arrive(t, MaxSeqRequests)
  \/ \E t \in Threads : Step(t)

SpecSeq == Init /\ [][NextSeq]_vars

\* one request at a time, over the datasets and tiles that show the drawing;
\* the configuration is changed between requests
NextDraw ==
  \/ AllIdle /\ \E p \in DrawPaths : SetConfigPath(p)
  \/ AllIdle /\ \E t \in Threads :
       \/ \E a \in DrawAddresses : StartTile(t, a[1], a[2], a[3], MaxDrawRequests)
       \/ StartHealth(t, MaxDrawRequests)
  \/ \E t \in Threads : Step(t)

SpecDraw == Init /\ [][NextDraw]_vars

\* one request at a time, each with a valid address, so that each makes a
\* cache call; the configuration changes at any time
NextCache ==
  \/ \E p \in Paths : SetConfigPath(p)
  \/ AllIdle /\ \E t \in Threads :
       \/ \E a \in LiveAddresses : StartTile(t, a[1], a[2], a[3], MaxCacheRequests)
       \/ StartHealth(t, MaxCacheRequests)
  \/ \E t \in Threads : Step(t)

SpecCache == Init /\ [][NextCache]_vars

\* the threaded server again, every thread that has a request in hand being
\* given the processor again and again (the interpreter switches between
\* the runnable threads).  The configuration stays as it is: the loads are
\* those of the requests that find the cache empty or half written.
NextLive ==
  \/ \E t \in Threads :
       \/ \E a \in LiveAddresses : StartTile(t, a[1], a[2], a[3], MaxLiveRequests)
       \/ StartHealth(t, MaxLiveRequests)
  \/ \E t \in Threads : Step(t)

SpecLive == Init /\ [][NextLive]_vars /\ \A t \in Threads : WF_vars(Step(t))

\* one request at a time, over the file with unsupported and degenerate
\* geometries
NextSkip ==
  \/ AllIdle /\ \E p \in SkipPaths : SetConfigPath(p)
  \/ AllIdle /\ \E t \in Threads :
       \/ \E a \in SkipAddresses : StartTile(t, a[1], a[2], a[3], MaxSkipRequests)
       \/ StartHealth(t, MaxSkipRequests)
  \/ \E t \in Threads : Step(t)

SpecSkip == Init /\ [][NextSkip]_vars

\* the coordinate functions called directly, with any address
NextCalls ==
  \E a \in CallAddresses :
    \/ Call_tile_to_bbox_mercator(a[1], a[2], a[3])
    \/ Call_tile_to_bbox_wgs84(a[1], a[2], a[3])

SpecCalls == Init /\ [][NextCalls]_vars

ApiStep(t) ==
  \/ Report_Validate(t)
  \/ Report_Upload(t)
  \/ Report_Coords(t)
  \/ Pg_GetConn(t)
  \/ Pg_Body(t)
  \/ Pg_Except(t)
  \/ Pg_Finally(t)
  \/ Aws_Put(t)
  \/ Fetch_Other(t)
  \/ Local_Read(t)
  \/ Local_Open(t)
  \/ Local_Dump(t)
  \/ Return(t)
  \/ Api_Finish(t)

\* the API server (app.run: each request is served in a thread of its own):
\* reports are posted and the methods of the data service called concurrently
NextApi ==
  \/ \E t \in Threads : \E f \in PostForms : Post(t, f)
  \/ \E t \in Threads : \E fd \in CallerFloods(napi + 1) : Call(t, POST, fd)
  \/ \E t \in Threads : \E op \in FetchOps : Call(t, op, NoFlood)
  \/ \E t \in Threads : ApiStep(t)

SpecApi == Init /\ [][NextApi]_vars

\* the data service in PostgreSQL mode: its four operations called
\* concurrently, with every flood_data.  The workers being alike, a call is
\* given to the first free one.
PgStep(t) ==
  \/ Pg_GetConn(t)
  \/ Pg_Body(t)
  \/ Pg_Except(t)
  \/ Pg_Finally(t)
  \/ Return(t)
  \/ Api_Finish(t)

FirstFree(t) == \A u \in Threads : u < t => api[u].pc # "idle"

NextPg ==
  \/ \E t \in Threads : \E fd \in CallerFloods(napi + 1) :
       data_source = "postgresql" /\ FirstFree(t) /\ Call(t, POST, fd)
  \/ \E t \in Threads : \E op \in FetchOps :
       data_source = "postgresql" /\ FirstFree(t) /\ Call(t, op, NoFlood)
  \/ \E t \in Threads : PgStep(t)

SpecPg == Init /\ [][NextPg]_vars


(* ------------------------------ properties ----------------------------- *)

Done(t) == pc[t] = "done"
TileDone(t) == Done(t) /\ req[t].kind = "tile"

LoadPcs == {"load_try", "load_read", "load_setpath"}
CallPcs == {"load_chk_cache", "load_chk_path", "load_ret"} \cup LoadPcs
ReturnedPcs == {"render_check", "health_resp"}

\* C1: a tile request with a valid address is answered with status 200 and
\* an image/png body, whatever the data are and whichever step raised; so a
\* response that is not a 200 image belongs to an address that failed the
\* validation
ValidAddressGetsImage ==
  \A t \in Threads :
    (TileDone(t) /\ ReqValid(req[t])) =>
      /\ resp[t].status = 200
      /\ resp[t].mimetype = PNG
      /\ resp[t].image # NoImage

\* C1 witness: a valid request in which drawing raised has been answered
FailedStepAnswered ==
  \E t \in Threads :
    /\ TileDone(t) /\ ReqValid(req[t])
    /\ "draw" \in hist[t].raised
    /\ resp[t].status = 200

\* C2: the step that finds the address out of range answers 400 with a
\* plain-text reason at once: render_tile is not entered, no provider load
\* is made and the cache is left as it was
InvalidAddressRejected ==
  [][\A t \in Threads :
       (pc[t] = "validate" /\ ~ReqValid(req[t]) /\ pc'[t] # "validate") =>
         /\ pc'[t] = "done"
         /\ resp'[t].status = 400
         /\ resp'[t].mimetype = "text/plain"
         /\ resp'[t].text # None
         /\ ~hist'[t].rendered
         /\ hist'[t].loads = 0
         /\ UNCHANGED cacheVars]_vars

\* C2 witness: a request with an x beyond the last column has been answered
OutOfRangeAnswered ==
  \E t \in Threads :
    /\ TileDone(t)
    /\ req[t].z <= MAX_ZOOM /\ req[t].x >= Pow2(req[t].z)
    /\ resp[t].status = 400

StepsThatBlank == {"load", "reproject", "draw", "encode"}

FailedLoadKeepsEntry ==
  [][\A t \in Threads :
       (pc[t] \in {"load_try", "load_read"} /\ pc'[t] \notin LoadPcs) =>
         /\ UNCHANGED cacheVars
         /\ gdf'[t] = 0
         /\ pc'[t] \in ReturnedPcs]_vars

\* C4 witness: a reload for a changed identifier failed while an entry was
\* cached, and the call has returned None
FailedReloadWithEntry ==
  \E t \in Threads :
    /\ pc[t] \in ReturnedPcs
    /\ hist[t].trigger = "changed" /\ hist[t].outcome = "failed"
    /\ gdf[t] = 0
    /\ _gdf_cache # 0 /\ _cache_path # geojson_path[t]

\* C5: a call made with an identifier other than the cached one, whose load
\* succeeds, makes exactly one provider load, replaces the cached frame and
\* identifier by those of the new source, and returns the new frame
ReloadOnSourceChange ==
  \A t \in Threads :
    (pc[t] \in ReturnedPcs /\ hist[t].trigger = "changed"
       /\ hist[t].outcome = "loaded") =>
      /\ hist[t].loads = 1
      /\ _gdf_cache # hist[t].entry_cache
      /\ _cache_path = geojson_path[t]
      /\ _cache_path # hist[t].seen_path
      /\ gdf[t] = _gdf_cache
      /\ heap[gdf[t]].src = geojson_path[t]

\* C5 witness: the second of two calls has reloaded for a changed identifier
ReloadedForNewSource ==
  \E t \in Threads :
    /\ pc[t] \in ReturnedPcs
    /\ hist[t].trigger = "changed" /\ hist[t].outcome = "loaded"
    /\ hist[t].entry_cache # 0
    /\ nreq >= 2

\* C6: a call that begins while the cache holds a frame under the call's own
\* identifier makes no provider load, leaves the cached frame and identifier
\* as they are, and returns that frame
HitLeavesCache ==
  \A t \in Threads :
    (hist[t].entry_hit /\ pc[t] \in CallPcs \cup ReturnedPcs) =>
      /\ pc[t] \notin LoadPcs
      /\ hist[t].loads = 0
      /\ _gdf_cache = hist[t].entry_cache
      /\ heap[_gdf_cache] = hist[t].entry_frame
      /\ _cache_path = geojson_path[t]
      /\ pc[t] \in ReturnedPcs => gdf[t] = hist[t].entry_cache

\* C6 witness: a later call has been served from the cache
ServedFromCache ==
  \E t \in Threads :
    /\ pc[t] \in ReturnedPcs
    /\ hist[t].entry_hit
    /\ nreq >= 3

\* C7: at most one provider load is in flight at any time
SingleFlightReload ==
  Cardinality({t \in Threads : pc[t] = "load_read"}) <= 1

\* C8: whenever a thread is about to read the cache (its test, or the
\* return of the cached frame), the entry is whole: frame and identifier
\* were published by the same load
ReadersSeeWholeEntry ==
  \A t \in Threads :
    pc[t] \in {"load_chk_cache", "load_chk_path", "load_ret"} =>
      IF _gdf_cache = 0 THEN _cache_path = None
      ELSE heap[_gdf_cache].src = _cache_path

RenderPcs == {"render_check", "render_crs", "render_reproject", "render_filter",
              "render_draw"}

\* C9: a step of render_tile after the cache call changes neither the cache
\* nor any frame the cache holds or has held
RenderLeavesFramesAlone ==
  [][\A t \in Threads :
       (pc[t] \in RenderPcs /\ pc'[t] # pc[t]) =>
         /\ UNCHANGED <<_gdf_cache, _cache_path>>
         /\ \A i \in 1..Len(heap) : heap'[i] = heap[i]]_vars

\* C10: a tile request for which the cache call returned None or an empty
\* frame, or for which the filter kept no row, is answered with status 200
\* and a fully transparent tile
EmptyGivesTransparent ==
  \A t \in Threads :
    (TileDone(t) /\ (hist[t].nodata \/ hist[t].filter_empty)) =>
      /\ resp[t].status = 200
      /\ resp[t].mimetype = PNG
      /\ resp[t].image.size = TILE_SIZE
      /\ FullyTransparent(resp[t].image)

\* C10 witness: a frame with features, none of them on the tile asked for
NothingOnTile ==
  \E t \in Threads :
    /\ TileDone(t)
    /\ hist[t].filter_empty /\ hist[t].raised = {}
    /\ gdf_mercator[t].feats # <<>>
    /\ resp[t].status = 200

\* C11: every 200 answer to a tile request with a valid address carries
\* Content-Type image/png and Cache-Control 'public, max-age=3600', whether
\* the tile was rendered, is the transparent tile for no data, or is the
\* transparent tile sent after a caught failure
ImageAnswersCarryCacheControl ==
  \A t \in Threads :
    (TileDone(t) /\ ReqValid(req[t]) /\ resp[t].status = 200) =>
      /\ resp[t].mimetype = PNG
      /\ resp[t].cache_control = "public, max-age=3600"

\* C12: GET /health is answered 200 with a body that describes the frame the
\* cache holds when the answer is made: feature_count is the number of its
\* features (0 for an empty cache) and data_loaded says that it has some
HealthDescribesCache ==
  \A t \in Threads :
    (Done(t) /\ req[t].kind = "health") =>
      LET n == IF _gdf_cache # 0 THEN Len(heap[_gdf_cache].feats) ELSE 0
      IN  /\ resp[t].status = 200
          /\ resp[t].json.feature_count = n
          /\ resp[t].json.data_loaded = (n > 0)

(* ------------------------ properties of the drawing --------------------- *)

\* the request of thread t has come back from the drawing loop of render_tile
Drawn(t) ==
  /\ pc[t] = "encode"
  /\ ~hist[t].nodata /\ ~hist[t].filter_empty

\* the pixels looked at: a lattice over the tile
SamplePixels == {<<40 + 48 * i, 40 + 48 * j>> : i, j \in 0..4}

\* the drawing calls of row f on the tile of request r
RowOps(f, r) == FeatureOps(f, TileBBox(r), TILE_SIZE)

\* row f writes pixel p
Covers(f, r, p) == \E j \in 1..Len(RowOps(f, r)) : Writes(RowOps(f, r)[j], p)

\* the colour row f leaves at a pixel it writes
ColorOfRow(f, r, p) == ColorAfter(RowOps(f, r), p, TRANSPARENT)

\* position of row f in the sequence feats (the rows of a frame differ)
IndexIn(feats, f) == CHOOSE i \in 1..Len(feats) : feats[i] = f

\* C13: the rows are painted in the order of the FeatureSet, and a pixel
\* holds exactly what the last row that writes it wrote (no blend with an
\* earlier row); a pixel no row writes stays transparent
LastWriteWins ==
  \A t \in Threads :
    Drawn(t) =>
      LET rows == intersecting[t]
          orig == gdf_mercator[t].feats
      IN  /\ \A i, j \in 1..Len(rows) :
               i < j => IndexIn(orig, rows[i]) < IndexIn(orig, rows[j])
          /\ \A p \in SamplePixels :
               LET C == {i \in 1..Len(rows) : Covers(rows[i], req[t], p)}
               IN  PixelAt(img[t], p) =
                     IF C = {} THEN TRANSPARENT
                     ELSE ColorOfRow(rows[SetMax(C)], req[t], p)

\* C13 witness: a pixel written by two rows of different colour shows the
\* fill of the second
OverlapShowsLater ==
  \E t \in Threads :
    /\ Drawn(t)
    /\ \E p \in SamplePixels : \E i, j \in 1..Len(intersecting[t]) :
         /\ i < j
         /\ Covers(intersecting[t][i], req[t], p)
         /\ Covers(intersecting[t][j], req[t], p)
         /\ ColorOfRow(intersecting[t][i], req[t], p)
              # ColorOfRow(intersecting[t][j], req[t], p)
         /\ PixelAt(img[t], p) = get_severity_color(RowSeverity(intersecting[t][j]))


\* the severity value render_tile finds on a row: the severity attribute, or
\* severity_level in a frame without one (Absent when it has neither)
ValueOnRow(f) == IF f.severity # Absent THEN f.severity ELSE f.severity_level

\* the colours of the four severities, and the colour of any other value
ColorTable(v) ==
  CASE Lower(v) = "critical" -> <<128, 0, 128, 200>>
    [] Lower(v) = "high"     -> <<255, 0, 0, 180>>
    [] Lower(v) = "medium"   -> <<255, 165, 0, 150>>
    [] Lower(v) = "low"      -> <<255, 255, 0, 120>>
    [] OTHER                 -> <<200, 200, 200, 100>>

Recognized == {"critical", "high", "medium", "low"}

\* a row without a value: no attribute, None, or the empty string
Missing(v) == v \in {Absent, None, ""}

\* the fills of the drawing calls of row f, the holes apart
FillsOfRow(f, r) ==
  {RowOps(f, r)[j].fill : j \in 1..Len(RowOps(f, r))} \ {TRANSPARENT}

\* every drawing call of row f is among those made on the image
RowIsOnImage(f, r, im) ==
  \A j \in 1..Len(RowOps(f, r)) : \E k \in 1..Len(im.ops) : im.ops[k] = RowOps(f, r)[j]

PolygonsOf(f) ==
  IF f.kind = "Polygon" THEN <<f.polys[1]>>
  ELSE IF f.kind = "MultiPolygon" THEN f.polys
  ELSE <<>>

\* the drawing calls made on the image up to and including polygon k of
\* row i
OpsThroughPolygon(rows, i, k, r) ==
  Flatten([j \in 1..(i - 1) |-> RowOps(rows[j], r)])
    \o Flatten([q \in 1..k |->
                  PolygonOps(PolygonsOf(rows[i])[q],
                             get_severity_color(RowSeverity(rows[i])),
                             TileBBox(r), TILE_SIZE)])

\* pixel p lies inside the ring, off its outline
InsideRing(ring, r, p) ==
  LET b == Envelope(ToPixels(ring, TileBBox(r), TILE_SIZE))
  IN  b[1] < p[1] /\ p[1] < b[3] /\ b[2] < p[2] /\ p[2] < b[4]

\* C16: once a polygon has been drawn, every pixel inside one of its
\* interior rings, the ring's outline apart, has alpha 0, whatever the fill
\* of the polygon and whatever an earlier row wrote there
HolesPunchThrough ==
  \A t \in Threads :
    Drawn(t) =>
      \A i \in 1..Len(intersecting[t]) :
        \A k \in 1..Len(PolygonsOf(intersecting[t][i])) :
          LET rings == PolygonsOf(intersecting[t][i])[k]
              ops == OpsThroughPolygon(intersecting[t], i, k, req[t])
          IN  /\ Len(ops) <= Len(img[t].ops)
              /\ ops = SubSeq(img[t].ops, 1, Len(ops))
              /\ \A h \in 2..Len(rings) : \A p \in SamplePixels :
                   InsideRing(rings[h], req[t], p) =>
                     ColorAfter(ops, p, TRANSPARENT)[4] = 0

\* C16 witness: a pixel that an earlier row had painted lies inside the hole
\* of a later polygon and is transparent on the tile
HoleOverPaintedPixel ==
  \E t \in Threads :
    /\ Drawn(t)
    /\ \E p \in SamplePixels : \E i, j \in 1..Len(intersecting[t]) :
         /\ i < j
         /\ ColorOfRow(intersecting[t][i], req[t], p)[4] > 0
         /\ intersecting[t][j].kind = "Polygon"
         /\ Len(intersecting[t][j].polys[1]) > 1
         /\ InsideRing(intersecting[t][j].polys[1][2], req[t], p)
         /\ PixelAt(img[t], p)[4] = 0


(* -------------------- properties of CoordinateMath ---------------------- *)

\* C17: called with an address out of range (z outside 0..20, or x or y
\* outside 0..2^z - 1), tile_to_bbox_mercator and tile_to_bbox_wgs84 fail with
\* InvalidTileAddress and return no bounding box
OutOfRangeCallFails ==
  (call.fn # None /\ ~ValidAddress(call.z, call.x, call.y)) =>
    /\ call.raised = "InvalidTileAddress"
    /\ call.ret = <<>>

\* C18: for a valid address with x + 1 < 2^z, the east edge of the Mercator
\* box of tile (z, x, y) is exactly the west edge of the box of (z, x+1, y)
AdjacentTilesShareEdge ==
  (/\ call.fn = "tile_to_bbox_mercator"
   /\ ValidAddress(call.z, call.x, call.y)
   /\ call.x + 1 < Pow2(call.z)) =>
    call.ret[3] = tile_to_bbox_mercator(call.z, call.x + 1, call.y)[1]

\* C18 witness: the box of a tile that has an eastern neighbour has been
\* computed, at a zoom where the tiles are not the whole world
NeighbourBoxComputed ==
  /\ call.fn = "tile_to_bbox_mercator"
  /\ call.z >= 2
  /\ ValidAddress(call.z, call.x, call.y)
  /\ call.x + 1 < Pow2(call.z)
  /\ call.ret[1] < call.ret[3] /\ call.ret[3] < MAX_EXTENT


(* ---------------------- the steps of a tile request --------------------- *)

\* the places of get_tile and of the functions it calls, in program order
ProgramOrder ==
  <<"validate", "load_cfg", "load_chk_cache", "load_chk_path", "load_try",
    "load_read", "load_setpath", "load_ret", "render_check", "render_crs",
    "render_reproject", "render_filter", "render_draw", "encode", "done">>

Pos(p) == CHOOSE i \in 1..Len(ProgramOrder) : ProgramOrder[i] = p

\* 1 Validating, 2 Loading (the cache call and the test of what it returned),
\* 3 Filtering (the reprojection and the filter), 4 Rendering, 5 Encoding,
\* 6 Responding
StageOf(p) ==
  CASE p = "validate" -> 1
    [] p \in CallPcs \cup {"load_cfg", "render_check"} -> 2
    [] p \in {"render_crs", "render_reproject", "render_filter"} -> 3
    [] p = "render_draw" -> 4
    [] p = "encode" -> 5
    [] p = "done" -> 6

Filtered(t) ==
  \/ pc[t] = "render_draw"
  \/ pc[t] = "encode" /\ hist[t].filter_empty

\* the coordinate pairs of a geometry
CoordsOf(f) ==
  UNION {UNION {{f.polys[k][l][i] : i \in 1..Len(f.polys[k][l])}
                  : l \in 1..Len(f.polys[k])}
           : k \in 1..Len(f.polys)}

\* the axis-aligned envelope of the geometry overlaps the box
EnvelopeOverlaps(f, bbox) ==
  LET P == CoordsOf(f)
  IN  /\ P # {}
      /\ BoxesMeet(<<SetMin({q[1] : q \in P}), SetMin({q[2] : q \in P}),
                     SetMax({q[1] : q \in P}), SetMax({q[2] : q \in P})>>, bbox)

\* rows is feats cut down to the positions in K, in the order of feats
IsSelection(rows, feats, K) ==
  /\ Len(rows) = Cardinality(K)
  /\ \A i \in K : rows[Cardinality({m \in K : m <= i})] = feats[i]

\* C20 as stated: the filter keeps exactly the rows whose envelope overlaps
\* the Mercator box of the tile, in their order
FilterKeepsEnvelopeOverlaps ==
  \A t \in Threads :
    (Filtered(t) /\ "filter" \notin hist[t].raised) =>
      LET feats == gdf_mercator[t].feats
      IN  IsSelection(intersecting[t], feats,
                      {i \in 1..Len(feats) : EnvelopeOverlaps(feats[i], TileBBox(req[t]))})

\* C20 amended: the filter keeps exactly the rows whose geometry shares a
\* point with the Mercator box of the tile, in their order; the envelope of
\* every row kept overlaps the box, but a row whose envelope overlaps it
\* while its geometry does not (the box lies inside a hole) is left out; and
\* if the test raises, every row is kept
FilterKeepsIntersecting ==
  \A t \in Threads :
    Filtered(t) =>
      LET feats == gdf_mercator[t].feats
          bbox == TileBBox(req[t])
      IN  IF "filter" \in hist[t].raised
          THEN intersecting[t] = feats
          ELSE /\ IsSelection(intersecting[t], feats,
                              {i \in 1..Len(feats) : intersects(feats[i], bbox)})
               /\ \A j \in 1..Len(intersecting[t]) :
                    EnvelopeOverlaps(intersecting[t][j], bbox)

\* C20 witness: of two rows whose envelopes overlap the tile, the filter
\* kept the first and left out the second, in whose hole the tile lies
RowAroundTileLeftOut ==
  \E t \in Threads :
    /\ Filtered(t) /\ "filter" \notin hist[t].raised
    /\ Len(gdf_mercator[t].feats) = 2
    /\ \A i \in 1..2 : EnvelopeOverlaps(gdf_mercator[t].feats[i], TileBBox(req[t]))
    /\ intersecting[t] = <<gdf_mercator[t].feats[1]>>


(* ------------- unsupported and degenerate geometries (PathD) ------------ *)

\* the geometry kinds render_tile has a branch for
SupportedKinds ==
  {"Point", "MultiPoint", "LineString", "MultiLineString", "Polygon", "MultiPolygon"}

Supported(f) == f.kind \in SupportedKinds

\* the pixel box the first ring of row f maps to on the tile of request r
Footprint(f, r) == Envelope(ToPixels(f.polys[1][1], TileBBox(r), TILE_SIZE))

\* C21: a row whose geometry kind is none of the six supported kinds writes
\* no pixel, and the image that comes back from the drawing is the image
\* that drawing the other rows alone gives: on every pixel looked at, what
\* the last supported row that writes it wrote, else transparent
UnsupportedKindSkipped ==
  \A t \in Threads :
    Drawn(t) =>
      LET rows == intersecting[t]
          S == {i \in 1..Len(rows) : Supported(rows[i])}
      IN  /\ img[t] = DrawFeatures(ImageNew(TILE_SIZE, TRANSPARENT),
                                   SelectSeq(rows, Supported), TileBBox(req[t]))
          /\ \A p \in SamplePixels :
               LET C == {i \in S : Covers(rows[i], req[t], p)}
               IN  PixelAt(img[t], p) =
                     IF C = {} THEN TRANSPARENT
                     ELSE ColorOfRow(rows[SetMax(C)], req[t], p)

\* C21 witness: a tile was drawn from rows with a geometry collection among
\* them; a pixel inside the collection only is transparent, a pixel inside
\* the collection and an earlier square shows the square, and the line that
\* follows the collection in the frame is on the image
UnsupportedAmongDrawn ==
  \E t \in Threads :
    /\ Drawn(t)
    /\ \E i, j, k \in 1..Len(intersecting[t]) :
         LET rows == intersecting[t]
         IN  /\ j < i /\ i < k
             /\ ~Supported(rows[i])
             /\ rows[j].kind = "Polygon" /\ rows[k].kind = "LineString"
             /\ \E p, q \in SamplePixels :
                  /\ InBox(p, Footprint(rows[i], req[t]))
                  /\ PixelAt(img[t], p) = TRANSPARENT
                  /\ InBox(q, Footprint(rows[i], req[t]))
                  /\ PixelAt(img[t], q) = get_severity_color(RowSeverity(rows[j]))
             /\ \E o \in 1..Len(img[t].ops) : img[t].ops[o].shape = "line"

\* the rings and lines of row f that have enough points to be drawn, each
\* with the drawing call render_tile makes for it
SoundParts(f, r) ==
  LET color == get_severity_color(RowSeverity(f))
      px(c) == ToPixels(c, TileBBox(r), TILE_SIZE)
  IN  IF f.kind \in {"Polygon", "MultiPolygon"}
      THEN {DrawOp("polygon", px(PolygonsOf(f)[k][h]),
                   IF h = 1 THEN color ELSE TRANSPARENT, BLACK) :
              <<k, h>> \in {kh \in (1..Len(PolygonsOf(f))) \X (1..4) :
                              /\ kh[2] <= Len(PolygonsOf(f)[kh[1]])
                              /\ Len(PolygonsOf(f)[kh[1]][kh[2]]) >= 3}}
      ELSE IF f.kind \in {"LineString", "MultiLineString"}
      THEN {DrawOp("line", px(f.polys[1][l]), color, NoColor) :
              l \in {m \in 1..Len(f.polys[1]) : Len(f.polys[1][m]) >= 2}}
      ELSE {}

\* row f has a ring of fewer than 3 points or a line of fewer than 2
HasDegenerate(f) ==
  \/ /\ f.kind \in {"Polygon", "MultiPolygon"}
     /\ \E k \in 1..Len(PolygonsOf(f)) : \E h \in 1..Len(PolygonsOf(f)[k]) :
          Len(PolygonsOf(f)[k][h]) < 3
  \/ /\ f.kind \in {"LineString", "MultiLineString"}
     /\ \E l \in 1..Len(f.polys[1]) : Len(f.polys[1][l]) < 2

\* C22: the image that comes back from the drawing holds no polygon call of
\* fewer than 3 points and no line call of fewer than 2, and it holds the
\* call of every ring of 3 points or more and every line of 2 points or
\* more of every row, whether or not the row or the frame has a degenerate
\* ring or line as well
DegeneratePartsSkipped ==
  \A t \in Threads :
    Drawn(t) =>
      LET ops == img[t].ops
          made == {ops[o] : o \in 1..Len(ops)}
      IN  /\ \A o \in 1..Len(ops) :
               /\ ops[o].shape = "polygon" => Len(ops[o].pts) >= 3
               /\ ops[o].shape = "line" => Len(ops[o].pts) >= 2
          /\ \A i \in 1..Len(intersecting[t]) :
               SoundParts(intersecting[t][i], req[t]) \subseteq made
          /\ \A p \in SamplePixels :
               PixelAt(img[t], p) # TRANSPARENT =>
                 \E i \in 1..Len(intersecting[t]) :
                   \E op \in SoundParts(intersecting[t][i], req[t]) \cup
                              {d \in made : d.shape = "ellipse"} :
                     Writes(op, p)

\* C22 witness: the filter had failed, so that the rows without points
\* reached the drawing; the tile shows the line and the square that share
\* their geometries with an empty part, and the row after them
DegenerateAmongDrawn ==
  \E t \in Threads :
    /\ Drawn(t)
    /\ "filter" \in hist[t].raised
    /\ \E i, j, k, l \in 1..Len(intersecting[t]) :
         LET rows == intersecting[t]
         IN  /\ i < j /\ j < k /\ k < l
             /\ rows[i] = EmptyPolygon /\ rows[k] = EmptyLine
             /\ HasDegenerate(rows[j]) /\ rows[j].kind = "MultiLineString"
             /\ HasDegenerate(rows[l]) /\ rows[l].kind = "MultiPolygon"
             /\ SoundParts(rows[j], req[t]) # {}
             /\ SoundParts(rows[l], req[t]) # {}
             /\ \E p \in SamplePixels :
                  PixelAt(img[t], p) = get_severity_color(RowSeverity(rows[l]))
    /\ Len(img[t].ops) = 4


(* --------------------------- the pixel buffer --------------------------- *)

\* the image a request makes of its own rows on a new transparent buffer
OwnImage(t) ==
  DrawFeatures(ImageNew(TILE_SIZE, TRANSPARENT), intersecting[t], TileBBox(req[t]))

\* C23: the image a request holds is of the tile size and was made
\* transparent, and it carries the drawing calls of the request's own rows
\* on its own tile and nothing else, whatever the other threads draw
\* meanwhile; the image sent is that image or the new transparent one of the
\* exception handler
BufferIsOwn ==
  \A t \in Threads :
    /\ img[t] # NoImage =>
         /\ img[t].size = TILE_SIZE
         /\ img[t].bg = TRANSPARENT
         /\ img[t].ops = <<>> \/ img[t] = OwnImage(t)
    /\ (TileDone(t) /\ resp[t].mimetype = PNG) =>
         resp[t].image \in {img[t], ImageNew(TILE_SIZE, TRANSPARENT)}

\* C23 witness: two requests hold painted images of different tiles at the
\* same time, and the one that has been answered sent its own
TwoBuffersAtOnce ==
  \E t, u \in Threads :
    /\ t # u
    /\ TileDone(t) /\ pc[u] = "encode"
    /\ <<req[t].z, req[t].x, req[t].y>> # <<req[u].z, req[u].x, req[u].y>>
    /\ hist[t].painted /\ hist[u].painted
    /\ img[t] # img[u]
    /\ resp[t].image = img[t]
    /\ img[t] = OwnImage(t) /\ img[u] = OwnImage(u)


(* ------------------------ the cache under threads ----------------------- *)

\* C25: a cache call that returns a frame returns one that was read from
\* the path the call was made for
CallReturnsOwnSource ==
  \A t \in Threads :
    (pc[t] \in ReturnedPcs /\ gdf[t] # 0) => heap[gdf[t]].src = geojson_path[t]

\* a step leaves a cached entry in the cache or puts another in its place
StaysFilled == _gdf_cache # 0 => _gdf_cache' # 0

\* the cached path is set exactly when the cached entry is
PathSetIffEntrySet == (_cache_path # None) <=> (_gdf_cache # 0)

\* C26: no step of a request or of a load, successful or failed, sets the
\* cached entry back to None once it holds a frame, and after every step the
\* cached path is set exactly when the cached entry is
CacheNeverEmptied == [][StaysFilled /\ PathSetIffEntrySet']_vars


\* C27: a cache call that begins without the cache holding its source goes
\* to the provider exactly once, whatever became of the calls before it; if
\* that load fails the cache is left as the call found it (nothing records
\* the failure), and if it succeeds the new frame and its path are in the
\* cache and the frame is returned.  A call that begins with its source
\* cached makes no load.
FailedLoadNotRemembered ==
  \A t \in Threads :
    (pc[t] \in ReturnedPcs /\ hist[t].outcome # "off") =>
      /\ hist[t].loads = IF hist[t].entry_hit THEN 0 ELSE 1
      /\ hist[t].outcome = "failed" =>
           /\ gdf[t] = 0
           /\ _gdf_cache = hist[t].entry_cache
           /\ _cache_path = IF hist[t].entry_cache = 0 THEN None
                            ELSE hist[t].seen_path
      /\ hist[t].outcome = "loaded" =>
           /\ _gdf_cache \notin {0, hist[t].entry_cache}
           /\ heap[_gdf_cache].src = geojson_path[t]
           /\ _cache_path = geojson_path[t]
           /\ gdf[t] = _gdf_cache

\* C27 witness: the call of a later request found the cache still empty and
\* loaded; no frame had been read before, so the load of every call before
\* it had failed
RetriedAfterFailure ==
  \E t \in Threads :
    /\ pc[t] \in ReturnedPcs
    /\ nreq >= 2
    /\ hist[t].entry_cache = 0 /\ hist[t].trigger = "empty"
    /\ hist[t].outcome = "loaded" /\ hist[t].loads = 1
    /\ Len(heap) = 1 /\ _gdf_cache = 1 /\ _cache_path = geojson_path[t]


(* ------------------------------ termination ---------------------------- *)

\* C24: every request a thread has taken gets its response, whatever the
\* other threads and the configuration do meanwhile, each provider call
\* returning with a frame or with an error
EveryRequestAnswered ==
  \A t \in Threads : (pc[t] # "idle") ~> (pc[t] = "done" /\ resp[t].status # 0)

\* C24 witness: a request that went to the provider itself has its response
\* while the other thread stands in the middle of a load
AnsweredWhileOtherLoads ==
  \E t, u \in Threads :
    /\ t # u
    /\ pc[t] = "done" /\ resp[t].status = 200 /\ hist[t].loads = 1
    /\ pc[u] \in LoadPcs



(* --------------------------- the API server ---------------------------- *)

\* the operations of the API server are all over
ApiQuiet == \A t \in Threads : api[t].pc \in {"idle", "done"}

\* the features the file holds
Stored == { reported_floods.features[i] : i \in 1..Len(reported_floods.features) }

\* C28: in local mode no feature of a post that returned 'success' is lost,
\* however the posts interleave: once no post is in hand, the stored
\* collection holds the feature of every post that reported success
NoPostLost ==
  ApiQuiet =>
    \A t \in Threads :
      (/\ api[t].pc = "done" /\ api[t].op = POST /\ api[t].result = "success"
       /\ data_source \notin {"postgresql", "AWS"})
        => api[t].flood_data.id \in Stored

\* C29: a POST /api/report-flood request answered with status 400 leaves no
\* persistent effect: no feature of it is stored and no file of it is saved
RejectedLeavesNothing ==
  \A t \in Threads :
    (api[t].pc = "done" /\ api[t].status = 400)
      => /\ api[t].id \notin Stored
         /\ api[t].id \notin uploads

\* the workers that hold a connection
Holders == { t \in Threads : api[t].conn = 1 }

\* C30: in PostgreSQL mode every connection an operation takes from the pool
\* is put back exactly once before the operation returns, on every path; the
\* pool counts as checked out the connections the running operations hold,
\* and none once the operations are over
ConnectionsReturnedOnce ==
  /\ pg_out = Cardinality(Holders)
  /\ \A t \in Threads :
       /\ api[t].returned <= api[t].taken
       /\ api[t].taken <= 1
       /\ api[t].pc \in {"return", "done"} =>
            /\ api[t].conn = 0
            /\ api[t].returned = api[t].taken
  /\ ApiQuiet => pg_out = 0

\* a post left by the 'Invalid coordinates' return and an operation whose
\* statement raised are both over, each having taken a connection and put it
\* back
AllPathsGaveBack ==
  /\ data_source = "postgresql"
  /\ pg_out = 0
  /\ \E t, u \in Threads :
       /\ api[t].pc = "done" /\ api[t].op = POST
       /\ api[t].message = "Invalid coordinates"
       /\ api[t].taken = 1 /\ api[t].returned = 1
       /\ api[u].pc = "done" /\ api[u].op \in FetchOps
       /\ api[u].result = "nothing"
       /\ api[u].taken = 1 /\ api[u].returned = 1

=============================================================================
